---- MODULE Spec2Model ----
(***************************************************************************)
(* Digital Evidence Management System: the Vyper contract (RBAC, evidence  *)
(* registry, chain of custody, status FSM, file attachments, events) as a  *)
(* state machine.  One action per external function; a transaction that    *)
(* hits a failing assert reverts: contract storage is left as it was and   *)
(* the receipt carries the revert reason and no logs.  The backend (an     *)
(* Express server with a blockchain service and an IPFS service) is a      *)
(* process that handles one HTTP request at a time, one step per awaited   *)
(* call, next to the transactions other senders put on the chain.          *)
(***************************************************************************)
EXTENDS Integers, Sequences, FiniteSets, TLC

\* ------------------------------------------------------------------------
\* Bounds of the model
\* ------------------------------------------------------------------------
MaxEvidence == 2      \* registrations explored (evidence_counter is a uint256)
MaxHistory  == 3      \* capacity of DynArray[CustodyEvent, 1000], scaled down
MaxFiles    == 1      \* capacity of DynArray[EvidenceFile, 100], scaled down
MaxTime     == 2      \* block.timestamp ranges over 1 .. MaxTime

\* ------------------------------------------------------------------------
\* Constants of the contract
\* ------------------------------------------------------------------------
ROLE_ADMIN  == 1
ROLE_POLICE == 2
ROLE_LAB    == 4
ROLE_JUDGE  == 8

Collected   == "Collected"
InAnalysis  == "InAnalysis"
Archived    == "Archived"
Invalidated == "Invalidated"
Status      == {Collected, InAnalysis, Archived, Invalidated}
EmptyStatus == "empty"           \* zero value of the enum in unset storage

\* ------------------------------------------------------------------------
\* Addresses, digests, strings: the inputs the transactions are drawn from
\* ------------------------------------------------------------------------
ZeroAddress == "0x0"             \* empty(address)
Deployer    == "0xD"             \* msg.sender of __init__
P1          == "0xA"
P2          == "0xB"
Senders     == {Deployer, P1, P2}
Addresses   == Senders \cup {ZeroAddress}

ZeroHash    == 0                 \* empty(bytes32)
Hashes      == {0, 1, 2}
\* String[N] values are sequences of characters
EmptyString == << >>
StrA        == <<"a">>
StrB        == <<"b">>

EvidenceIds == 0 .. MaxEvidence  \* ids a caller may name; 0 is never assigned

\* ------------------------------------------------------------------------
\* uint256 bit operations on role bitmaps (all masks used are below 2^8)
\* ------------------------------------------------------------------------
RECURSIVE BitAnd(_, _)
BitAnd(a, b) ==
    IF a = 0 \/ b = 0 THEN 0
    ELSE (IF a % 2 = 1 /\ b % 2 = 1 THEN 1 ELSE 0) + 2 * BitAnd(a \div 2, b \div 2)

BitOr(a, b) == a + b - BitAnd(a, b)

BitNot(a) == (2^8 - 1) - a

\* ------------------------------------------------------------------------
\* Structs and their zero values
\* ------------------------------------------------------------------------
EmptyEvidence ==
    [id |-> 0, file_hash |-> ZeroHash, ipfs_cid |-> EmptyString,
     description |-> EmptyString, case_id |-> EmptyString, creator |-> ZeroAddress, current_custodian |-> ZeroAddress,
     created_at |-> 0, status |-> EmptyStatus, exists |-> FALSE]

CustodyEvent(from, to, ts, reason) ==
    [from_address |-> from, to_address |-> to, timestamp |-> ts, reason |-> reason]

EvidenceFile(h, cid, ftype, by, ts) ==
    [file_hash |-> h, ipfs_cid |-> cid, file_type |-> ftype,
     added_by |-> by, added_at |-> ts]

\* Variant: the new element is written twice.
append_twice(array, item) == Append(Append(array, item), item)

\* Variant: the new element is put in front.
append_front(array, item) == <<item>> \o array

\* DynArray.append, on an array with room left.
append(array, item) == Append(array, item)

\* ------------------------------------------------------------------------
\* State
\* ------------------------------------------------------------------------
VARIABLES
    admin,              \* admin: public(address)
    evidence_counter,   \* evidence_counter: public(uint256)
    evidences,          \* HashMap[uint256, Evidence]
    custody_history,    \* HashMap[uint256, DynArray[CustodyEvent, 1000]]
    evidence_files,     \* HashMap[uint256, DynArray[EvidenceFile, 100]]
    roles,              \* HashMap[address, uint256]
    registered_hashes,  \* HashMap[bytes32, bool]
    now,                \* block.timestamp of the block being built
    tx,                 \* the last transaction and its receipt
    blockchainService,  \* BlockchainService singleton: [initialized]
    ipfsService,        \* IPFSService singleton: [initialized]
    ipfs,               \* the IPFS node: [blocks, pins], sets of CIDs
    server,             \* position of start() in app.js
    req                 \* the HTTP request being handled and its locals

storage == <<admin, evidence_counter, evidences, custody_history,
             evidence_files, roles, registered_hashes>>
backend_vars == <<blockchainService, ipfsService, ipfs, server, req>>
vars    == <<admin, evidence_counter, evidences, custody_history,
             evidence_files, roles, registered_hashes, now, tx,
             blockchainService, ipfsService, ipfs, server, req>>

\* A transaction's receipt: function called, msg.sender, success flag,
\* revert reason, events logged, return value (0 when none).
Receipt(fn, sender, err, logs, ret) ==
    [fn |-> fn, sender |-> sender, ok |-> (err = ""), err |-> err,
     logs |-> logs, ret |-> ret]

\* Variant: a refused call leaves an event in the log.
Reverted_logged(fn, sender, err) ==
    Receipt(fn, sender, err, <<[event |-> "Rejected", reason |-> err]>>, 0)

Reverted(fn, sender, err) == Receipt(fn, sender, err, <<>>, 0)

\* The outcome of a call of a view function: the value returned, or the
\* reason of the revert.
ViewOk(value) == [ok |-> TRUE, err |-> "", ret |-> value]

ViewReverted(err) == [ok |-> FALSE, err |-> err]

\* ------------------------------------------------------------------------
\* Modifiers (internal view functions): TRUE iff the assert passes
\* ------------------------------------------------------------------------
\* Variant: the ADMIN role is what is tested.
_only_admin_by_role(sender) == BitAnd(roles[sender], ROLE_ADMIN) # 0

_only_admin(sender) == sender = admin

\* Variant: any enrolled caller passes, whatever role is required.
_only_role_any(sender, required_role) == roles[sender] # 0

_only_role(sender, required_role) == BitAnd(roles[sender], required_role) # 0

\* Variant: an id counts as assigned when it does not exceed the counter.
_evidence_exists_by_counter(evidence_id) == evidence_id <= evidence_counter

_evidence_exists(evidence_id) == evidences[evidence_id].exists

\* Variant: the admin may act in the custodian's place.
_only_custodian_or_admin(sender, evidence_id) ==
    evidences[evidence_id].current_custodian = sender \/ sender = admin

_only_custodian(sender, evidence_id) ==
    evidences[evidence_id].current_custodian = sender

_validate_address(addr) == addr # ZeroAddress

_validate_string(s) == Len(s) > 0

_validate_case_id(case_id) == Len(case_id) > 0

_validate_hash(hash) == hash # ZeroHash

\* ------------------------------------------------------------------------
\* The backend before start() has run
\* ------------------------------------------------------------------------
\* A JavaScript value that is not there (a missing field or file).
undefined == <<"undefined">>

\* No request is being handled.
NoRequest ==
    [handler |-> "", pc |-> "idle", params |-> undefined,
     evidenceId |-> 0, fileHash |-> ZeroHash, cid |-> EmptyString,
     evidence |-> undefined, custodyHistory |-> undefined,
     calls |-> <<>>, res |-> [status |-> 0, error |-> "", data |-> undefined]]

\* The singletons as their constructors leave them, the IPFS node empty,
\* start() not yet past its first await.
Constructed ==
    /\ blockchainService = [initialized |-> FALSE]
    /\ ipfsService = [initialized |-> FALSE]
    /\ ipfs = [blocks |-> {}, pins |-> {}]
    /\ server = "initializeServices"
    /\ req = NoRequest

\* ------------------------------------------------------------------------
\* Constructor
\* ------------------------------------------------------------------------
\* Variant: the deployer is given the ADMIN role alone.
Init_admin_role_only ==
    /\ admin = Deployer
    /\ evidence_counter = 0
    /\ evidences = [i \in EvidenceIds |-> EmptyEvidence]
    /\ custody_history = [i \in EvidenceIds |-> <<>>]
    /\ evidence_files = [i \in EvidenceIds |-> <<>>]
    /\ roles = [a \in Addresses |-> IF a = Deployer THEN ROLE_ADMIN ELSE 0]
    /\ registered_hashes = [h \in Hashes |-> FALSE]
    /\ now = 1
    /\ tx = Receipt("__init__", Deployer, "", <<>>, 0)
    /\ Constructed

Init ==
    /\ admin = Deployer
    /\ evidence_counter = 0
    /\ evidences = [i \in EvidenceIds |-> EmptyEvidence]
    /\ custody_history = [i \in EvidenceIds |-> <<>>]
    /\ evidence_files = [i \in EvidenceIds |-> <<>>]
    /\ roles = [a \in Addresses |->
                  IF a = Deployer
                  THEN BitOr(BitOr(ROLE_ADMIN, ROLE_POLICE), BitOr(ROLE_LAB, ROLE_JUDGE))
                  ELSE 0]
    /\ registered_hashes = [h \in Hashes |-> FALSE]
    /\ now = 1
    /\ tx = Receipt("__init__", Deployer, "", <<>>, 0)
    /\ Constructed

\* ------------------------------------------------------------------------
\* RBAC functions
\* ------------------------------------------------------------------------
ValidRoles == {ROLE_ADMIN, ROLE_POLICE, ROLE_LAB, ROLE_JUDGE}

RoleGranted(account, role, granted_by) ==
    [event |-> "RoleGranted", account |-> account, role |-> role,
     granted_by |-> granted_by]

RoleRevoked(account, role, revoked_by) ==
    [event |-> "RoleRevoked", account |-> account, role |-> role,
     revoked_by |-> revoked_by]

\* Variant: the role argument is only required to be non-zero.
role_change_error_any_role(sender, account, role) ==
    IF ~_only_admin(sender) THEN "Only admin"
    ELSE IF ~_validate_address(account) THEN "Invalid address"
    ELSE IF role = 0 THEN "Invalid role"
    ELSE ""

role_change_error(sender, account, role) ==
    IF ~_only_admin(sender) THEN "Only admin"
    ELSE IF ~_validate_address(account) THEN "Invalid address"
    ELSE IF role \notin ValidRoles THEN "Invalid role"
    ELSE ""

grant_role(sender, account, role) ==
    LET err == role_change_error(sender, account, role) IN
    IF err # ""
    THEN /\ tx' = Reverted("grant_role", sender, err)
         /\ UNCHANGED <<storage, now>>
    ELSE /\ roles' = [roles EXCEPT ![account] = BitOr(roles[account], role)]
         /\ tx' = Receipt("grant_role", sender, "",
                          <<RoleGranted(account, role, sender)>>, 0)
         /\ UNCHANGED <<admin, evidence_counter, evidences, custody_history,
                        evidence_files, registered_hashes, now>>

\* Variant: the bit is toggled instead of cleared.
clear_role_toggle(mask, role) == BitOr(mask, role) - BitAnd(mask, role)

clear_role(mask, role) == BitAnd(mask, BitNot(role))

revoke_role(sender, account, role) ==
    LET err == role_change_error(sender, account, role) IN
    IF err # ""
    THEN /\ tx' = Reverted("revoke_role", sender, err)
         /\ UNCHANGED <<storage, now>>
    ELSE /\ roles' = [roles EXCEPT ![account] = clear_role(roles[account], role)]
         /\ tx' = Receipt("revoke_role", sender, "",
                          <<RoleRevoked(account, role, sender)>>, 0)
         /\ UNCHANGED <<admin, evidence_counter, evidences, custody_history,
                        evidence_files, registered_hashes, now>>

\* Variant: every bit of the argument must be held.
has_role_all(account, role) == BitAnd(roles[account], role) = role

has_role(account, role) == BitAnd(roles[account], role) # 0

\* ------------------------------------------------------------------------
\* Evidence registration
\* ------------------------------------------------------------------------
InitialRegistration == <<"I", "n", "i", "t">>     \* "Initial registration"

EvidenceRegistered(id, file_hash, ipfs_cid, case_id, creator, ts) ==
    [event |-> "EvidenceRegistered", id |-> id, file_hash |-> file_hash,
     ipfs_cid |-> ipfs_cid, case_id |-> case_id, creator |-> creator,
     timestamp |-> ts]

\* Variant: the duplicate check is missing.
register_error_no_duplicate(sender, file_hash, ipfs_cid, description, case_id) ==
    IF BitAnd(roles[sender], ROLE_POLICE) = 0 THEN "Unauthorized role"
    ELSE IF file_hash = ZeroHash THEN "Invalid hash"
    ELSE IF Len(description) = 0 THEN "Empty string"
    ELSE IF Len(case_id) = 0 THEN "Empty case ID"
    ELSE IF Len(ipfs_cid) = 0 THEN "Empty IPFS CID"
    ELSE ""

register_error(sender, file_hash, ipfs_cid, description, case_id) ==
    IF ~_only_role(sender, ROLE_POLICE) THEN "Unauthorized role"
    ELSE IF ~_validate_hash(file_hash) THEN "Invalid hash"
    ELSE IF ~_validate_string(description) THEN "Empty string"
    ELSE IF ~_validate_case_id(case_id) THEN "Empty case ID"
    ELSE IF ~(Len(ipfs_cid) > 0) THEN "Empty IPFS CID"
    ELSE IF registered_hashes[file_hash] THEN "Evidence already registered"
    ELSE ""

\* Variant: the digest is not recorded.
mark_registered_skipped(file_hash) == registered_hashes

mark_registered(file_hash) == [registered_hashes EXCEPT ![file_hash] = TRUE]

\* Variant: the id is read before the counter is incremented.
new_evidence_id_stale == evidence_counter

\* self.evidence_counter after the increment.
new_evidence_id == evidence_counter + 1

\* Variant: the initial entry names the creator as its source.
initial_custody_from_sender(sender) ==
    CustodyEvent(sender, sender, now, InitialRegistration)

initial_custody(sender) ==
    CustodyEvent(ZeroAddress, sender, now, InitialRegistration)

register_evidence(sender, file_hash, ipfs_cid, description, case_id) ==
    LET err == register_error(sender, file_hash, ipfs_cid, description, case_id)
        evidence_id == new_evidence_id
    IN
    IF err # ""
    THEN /\ tx' = Reverted("register_evidence", sender, err)
         /\ UNCHANGED <<storage, now>>
    ELSE /\ evidence_counter' = evidence_counter + 1
         /\ evidences' = [evidences EXCEPT ![evidence_id] =
                [id |-> evidence_id, file_hash |-> file_hash,
                 ipfs_cid |-> ipfs_cid, description |-> description,
                 case_id |-> case_id, creator |-> sender,
                 current_custodian |-> sender, created_at |-> now,
                 status |-> Collected, exists |-> TRUE]]
         /\ registered_hashes' = mark_registered(file_hash)
         /\ custody_history' = [custody_history EXCEPT ![evidence_id] =
                append(@, initial_custody(sender))]
         /\ tx' = Receipt("register_evidence", sender, "",
                <<EvidenceRegistered(evidence_id, file_hash, ipfs_cid, case_id,
                                     sender, now)>>, evidence_id)
         /\ UNCHANGED <<admin, evidence_files, roles, now>>

\* ------------------------------------------------------------------------
\* Custody management
\* ------------------------------------------------------------------------
CustodyTransferred(id, from, to, reason, ts) ==
    [event |-> "CustodyTransferred", id |-> id, from_address |-> from,
     to_address |-> to, reason |-> reason, timestamp |-> ts]

\* Variant: the caller must be enrolled as well.
transfer_error_caller_enrolled(sender, evidence_id, new_custodian, reason) ==
    IF ~_evidence_exists(evidence_id) THEN "Evidence does not exist"
    ELSE IF ~_only_custodian(sender, evidence_id) THEN "Not custodian"
    ELSE IF roles[sender] = 0 THEN "Unauthorized role"
    ELSE IF ~_validate_address(new_custodian) THEN "Invalid address"
    ELSE IF ~(Len(reason) > 0) THEN "Empty reason"
    ELSE IF ~(roles[new_custodian] # 0) THEN "New custodian has no role"
    ELSE IF ~(new_custodian # sender) THEN "Cannot transfer to self"
    ELSE IF Len(custody_history[evidence_id]) >= MaxHistory THEN "DynArray full"
    ELSE ""

\* Variant: the history takes entries without limit.
transfer_error_unbounded(sender, evidence_id, new_custodian, reason) ==
    IF ~_evidence_exists(evidence_id) THEN "Evidence does not exist"
    ELSE IF ~_only_custodian(sender, evidence_id) THEN "Not custodian"
    ELSE IF ~_validate_address(new_custodian) THEN "Invalid address"
    ELSE IF ~(Len(reason) > 0) THEN "Empty reason"
    ELSE IF ~(roles[new_custodian] # 0) THEN "New custodian has no role"
    ELSE IF ~(new_custodian # sender) THEN "Cannot transfer to self"
    ELSE ""

\* Variant: the test against a transfer to oneself is missing.
transfer_error_self_allowed(sender, evidence_id, new_custodian, reason) ==
    IF ~_evidence_exists(evidence_id) THEN "Evidence does not exist"
    ELSE IF ~_only_custodian(sender, evidence_id) THEN "Not custodian"
    ELSE IF ~_validate_address(new_custodian) THEN "Invalid address"
    ELSE IF ~(Len(reason) > 0) THEN "Empty reason"
    ELSE IF ~(roles[new_custodian] # 0) THEN "New custodian has no role"
    ELSE IF Len(custody_history[evidence_id]) >= MaxHistory THEN "DynArray full"
    ELSE ""

transfer_error(sender, evidence_id, new_custodian, reason) ==
    IF ~_evidence_exists(evidence_id) THEN "Evidence does not exist"
    ELSE IF ~_only_custodian(sender, evidence_id) THEN "Not custodian"
    ELSE IF ~_validate_address(new_custodian) THEN "Invalid address"
    ELSE IF ~(Len(reason) > 0) THEN "Empty reason"
    ELSE IF ~(roles[new_custodian] # 0) THEN "New custodian has no role"
    ELSE IF ~(new_custodian # sender) THEN "Cannot transfer to self"
    ELSE IF Len(custody_history[evidence_id]) >= MaxHistory THEN "DynArray full"
    ELSE ""

\* Variant: the sender of a transfer is taken to be the creator.
old_custodian_is_creator(evidence_id) == evidences[evidence_id].creator

old_custodian(evidence_id) == evidences[evidence_id].current_custodian

custody_event(evidence_id, new_custodian, reason) ==
    CustodyEvent(old_custodian(evidence_id), new_custodian, now, reason)

\* Variant: the custodian field is not written.
update_custodian_skipped(evidence_id, new_custodian) == evidences

\* Variant: the transfer also rewrites the creator.
update_custodian_and_creator(evidence_id, new_custodian) ==
    [evidences EXCEPT ![evidence_id].current_custodian = new_custodian,
                      ![evidence_id].creator = new_custodian]

\* Variant: a hand-over puts the evidence back to Collected.
update_custodian_reopens(evidence_id, new_custodian) ==
    [evidences EXCEPT ![evidence_id].current_custodian = new_custodian,
                      ![evidence_id].status = Collected]

update_custodian(evidence_id, new_custodian) ==
    [evidences EXCEPT ![evidence_id].current_custodian = new_custodian]

transfer_custody(sender, evidence_id, new_custodian, reason) ==
    LET err == transfer_error(sender, evidence_id, new_custodian, reason) IN
    IF err # ""
    THEN /\ tx' = Reverted("transfer_custody", sender, err)
         /\ UNCHANGED <<storage, now>>
    ELSE /\ custody_history' = [custody_history EXCEPT ![evidence_id] =
                append(@, custody_event(evidence_id, new_custodian, reason))]
         /\ evidences' = update_custodian(evidence_id, new_custodian)
         /\ tx' = Receipt("transfer_custody", sender, "",
                <<CustodyTransferred(evidence_id, old_custodian(evidence_id),
                                     new_custodian, reason, now)>>, 0)
         /\ UNCHANGED <<admin, evidence_counter, evidence_files, roles,
                        registered_hashes, now>>

get_custody_history(evidence_id) ==
    IF ~_evidence_exists(evidence_id) THEN ViewReverted("Evidence does not exist")
    ELSE ViewOk(custody_history[evidence_id])

get_current_custodian(evidence_id) ==
    IF ~_evidence_exists(evidence_id) THEN ViewReverted("Evidence does not exist")
    ELSE ViewOk(evidences[evidence_id].current_custodian)

\* ------------------------------------------------------------------------
\* Status management (finite state machine)
\* ------------------------------------------------------------------------
\* convert(Status, uint256): the members of an enum are the powers of two,
\* in the order of their declaration.
convert(status) ==
    CASE status = Collected   -> 1
      [] status = InAnalysis  -> 2
      [] status = Archived    -> 4
      [] status = Invalidated -> 8

\* Variant: the two status fields are exchanged.
StatusChanged_swapped(id, old_status, new_status, changed_by, ts) ==
    [event |-> "StatusChanged", id |-> id, old_status |-> new_status,
     new_status |-> old_status, changed_by |-> changed_by, timestamp |-> ts]

StatusChanged(id, old_status, new_status, changed_by, ts) ==
    [event |-> "StatusChanged", id |-> id, old_status |-> old_status,
     new_status |-> new_status, changed_by |-> changed_by, timestamp |-> ts]

\* Variant: Archived is not treated as terminal.
set_status_error_archived_open(sender, evidence_id, new_status) ==
    LET old_status == evidences[evidence_id].status IN
    IF ~evidences[evidence_id].exists THEN "Evidence does not exist"
    ELSE IF BitAnd(roles[sender], BitOr(ROLE_LAB, ROLE_JUDGE)) = 0 THEN "Unauthorized role"
    ELSE IF new_status = old_status THEN "Status unchanged"
    ELSE IF old_status = Collected /\ new_status \notin {InAnalysis, Invalidated}
         THEN "Invalid transition from Collected"
    ELSE IF old_status = InAnalysis /\ new_status \notin {Archived, Invalidated}
         THEN "Invalid transition from InAnalysis"
    ELSE IF old_status = Invalidated THEN "Cannot transition from Invalidated"
    ELSE ""

\* Variant: an evidence in analysis can be put back to Collected.
set_status_error_reopen(sender, evidence_id, new_status) ==
    LET old_status == evidences[evidence_id].status IN
    IF ~_evidence_exists(evidence_id) THEN "Evidence does not exist"
    ELSE IF ~_only_role(sender, BitOr(ROLE_LAB, ROLE_JUDGE)) THEN "Unauthorized role"
    ELSE IF ~(new_status # old_status) THEN "Status unchanged"
    ELSE IF old_status = Collected
              /\ ~(new_status = InAnalysis \/ new_status = Invalidated)
         THEN "Invalid transition from Collected"
    ELSE IF old_status = InAnalysis
              /\ ~(new_status = Archived \/ new_status = Invalidated
                     \/ new_status = Collected)
         THEN "Invalid transition from InAnalysis"
    ELSE IF old_status = Archived THEN "Cannot transition from Archived"
    ELSE IF old_status = Invalidated THEN "Cannot transition from Invalidated"
    ELSE ""

\* Variant: any enrolled caller may change the status.
set_status_error_any_role(sender, evidence_id, new_status) ==
    LET old_status == evidences[evidence_id].status IN
    IF ~_evidence_exists(evidence_id) THEN "Evidence does not exist"
    ELSE IF roles[sender] = 0 THEN "Unauthorized role"
    ELSE IF ~(new_status # old_status) THEN "Status unchanged"
    ELSE IF old_status = Collected
              /\ ~(new_status = InAnalysis \/ new_status = Invalidated)
         THEN "Invalid transition from Collected"
    ELSE IF old_status = InAnalysis
              /\ ~(new_status = Archived \/ new_status = Invalidated)
         THEN "Invalid transition from InAnalysis"
    ELSE IF old_status = Archived THEN "Cannot transition from Archived"
    ELSE IF old_status = Invalidated THEN "Cannot transition from Invalidated"
    ELSE ""

\* Variant: the test for an unchanged status is missing.
set_status_error_no_unchanged_check(sender, evidence_id, new_status) ==
    LET old_status == evidences[evidence_id].status IN
    IF ~_evidence_exists(evidence_id) THEN "Evidence does not exist"
    ELSE IF ~_only_role(sender, BitOr(ROLE_LAB, ROLE_JUDGE)) THEN "Unauthorized role"
    ELSE IF old_status = Collected
              /\ ~(new_status = InAnalysis \/ new_status = Invalidated)
         THEN "Invalid transition from Collected"
    ELSE IF old_status = InAnalysis
              /\ ~(new_status = Archived \/ new_status = Invalidated)
         THEN "Invalid transition from InAnalysis"
    ELSE IF old_status = Archived THEN "Cannot transition from Archived"
    ELSE IF old_status = Invalidated THEN "Cannot transition from Invalidated"
    ELSE ""

set_status_error(sender, evidence_id, new_status) ==
    LET old_status == evidences[evidence_id].status IN
    IF ~_evidence_exists(evidence_id) THEN "Evidence does not exist"
    ELSE IF ~_only_role(sender, BitOr(ROLE_LAB, ROLE_JUDGE)) THEN "Unauthorized role"
    ELSE IF ~(new_status # old_status) THEN "Status unchanged"
    ELSE IF old_status = Collected
              /\ ~(new_status = InAnalysis \/ new_status = Invalidated)
         THEN "Invalid transition from Collected"
    ELSE IF old_status = InAnalysis
              /\ ~(new_status = Archived \/ new_status = Invalidated)
         THEN "Invalid transition from InAnalysis"
    ELSE IF old_status = Archived THEN "Cannot transition from Archived"
    ELSE IF old_status = Invalidated THEN "Cannot transition from Invalidated"
    ELSE ""

set_status(sender, evidence_id, new_status) ==
    LET err == set_status_error(sender, evidence_id, new_status)
        old_status == evidences[evidence_id].status
    IN
    IF err # ""
    THEN /\ tx' = Reverted("set_status", sender, err)
         /\ UNCHANGED <<storage, now>>
    ELSE /\ evidences' = [evidences EXCEPT ![evidence_id].status = new_status]
         /\ tx' = Receipt("set_status", sender, "",
                <<StatusChanged(evidence_id, convert(old_status),
                                convert(new_status), sender, now)>>, 0)
         /\ UNCHANGED <<admin, evidence_counter, custody_history, evidence_files,
                        roles, registered_hashes, now>>

\* ------------------------------------------------------------------------
\* Multiple files per evidence
\* ------------------------------------------------------------------------
EvidenceFileAdded(id, file_hash, ipfs_cid, file_type, added_by, ts) ==
    [event |-> "EvidenceFileAdded", id |-> id, file_hash |-> file_hash,
     ipfs_cid |-> ipfs_cid, file_type |-> file_type, added_by |-> added_by,
     timestamp |-> ts]

\* Variant: a digest registered as an evidence is refused as a file.
add_file_error_unregistered_only(sender, evidence_id, file_hash, ipfs_cid, file_type) ==
    IF ~_evidence_exists(evidence_id) THEN "Evidence does not exist"
    ELSE IF ~_only_role(sender, ROLE_LAB) THEN "Unauthorized role"
    ELSE IF ~_validate_hash(file_hash) THEN "Invalid hash"
    ELSE IF ~(Len(ipfs_cid) > 0) THEN "Empty IPFS CID"
    ELSE IF ~(Len(file_type) > 0) THEN "Empty file type"
    ELSE IF registered_hashes[file_hash] THEN "Evidence already registered"
    ELSE IF Len(evidence_files[evidence_id]) >= MaxFiles THEN "DynArray full"
    ELSE ""

\* Variant: the role test of set_status is used.
add_file_error_lab_or_judge(sender, evidence_id, file_hash, ipfs_cid, file_type) ==
    IF ~_evidence_exists(evidence_id) THEN "Evidence does not exist"
    ELSE IF ~_only_role(sender, BitOr(ROLE_LAB, ROLE_JUDGE)) THEN "Unauthorized role"
    ELSE IF ~_validate_hash(file_hash) THEN "Invalid hash"
    ELSE IF ~(Len(ipfs_cid) > 0) THEN "Empty IPFS CID"
    ELSE IF ~(Len(file_type) > 0) THEN "Empty file type"
    ELSE IF Len(evidence_files[evidence_id]) >= MaxFiles THEN "DynArray full"
    ELSE ""

add_file_error(sender, evidence_id, file_hash, ipfs_cid, file_type) ==
    IF ~_evidence_exists(evidence_id) THEN "Evidence does not exist"
    ELSE IF ~_only_role(sender, ROLE_LAB) THEN "Unauthorized role"
    ELSE IF ~_validate_hash(file_hash) THEN "Invalid hash"
    ELSE IF ~(Len(ipfs_cid) > 0) THEN "Empty IPFS CID"
    ELSE IF ~(Len(file_type) > 0) THEN "Empty file type"
    ELSE IF Len(evidence_files[evidence_id]) >= MaxFiles THEN "DynArray full"
    ELSE ""

add_file_to_evidence(sender, evidence_id, file_hash, ipfs_cid, file_type) ==
    LET err == add_file_error(sender, evidence_id, file_hash, ipfs_cid, file_type) IN
    IF err # ""
    THEN /\ tx' = Reverted("add_file_to_evidence", sender, err)
         /\ UNCHANGED <<storage, now>>
    ELSE /\ evidence_files' = [evidence_files EXCEPT ![evidence_id] =
                append(@, EvidenceFile(file_hash, ipfs_cid, file_type, sender, now))]
         /\ tx' = Receipt("add_file_to_evidence", sender, "",
                <<EvidenceFileAdded(evidence_id, file_hash, ipfs_cid, file_type,
                                    sender, now)>>, 0)
         /\ UNCHANGED <<admin, evidence_counter, evidences, custody_history,
                        roles, registered_hashes, now>>

get_evidence_files(evidence_id) ==
    IF ~_evidence_exists(evidence_id) THEN ViewReverted("Evidence does not exist")
    ELSE ViewOk(evidence_files[evidence_id])

\* ------------------------------------------------------------------------
\* Query functions
\* ------------------------------------------------------------------------
get_evidence(evidence_id) ==
    IF ~_evidence_exists(evidence_id) THEN ViewReverted("Evidence does not exist")
    ELSE ViewOk(evidences[evidence_id])

get_evidence_count == evidence_counter

\* Variant: the test is that a digest is stored, not that it is the same.
verify_integrity_stored(evidence_id, file_hash) ==
    IF ~_evidence_exists(evidence_id) THEN ViewReverted("Evidence does not exist")
    ELSE ViewOk(evidences[evidence_id].file_hash # ZeroHash)

verify_integrity(evidence_id, file_hash) ==
    IF ~_evidence_exists(evidence_id) THEN ViewReverted("Evidence does not exist")
    ELSE ViewOk(evidences[evidence_id].file_hash = file_hash)

\* ------------------------------------------------------------------------
\* The chain: a new block advances block.timestamp; a transaction calls one
\* external function with some msg.sender and arguments.  A registration
\* that would succeed is explored while evidence_counter < MaxEvidence.
\* ------------------------------------------------------------------------
NewBlock ==
    /\ now < MaxTime
    /\ now' = now + 1
    /\ UNCHANGED <<storage, tx>>
    /\ UNCHANGED backend_vars

Register(sender, inp) ==
    /\ \/ register_error(sender, inp[1], inp[2], inp[3], inp[4]) # ""
       \/ evidence_counter < MaxEvidence
    /\ register_evidence(sender, inp[1], inp[2], inp[3], inp[4])

\* ------------------------------------------------------------------------
\* JavaScript values in the controllers: strings are sequences of
\* characters, a number is [nan, n]
\* ------------------------------------------------------------------------
\* !x, for x a string or a missing value
Falsy(x) == x = undefined \/ x = << >>

\* String.prototype.trim: s without the white space at its two ends
trim(s) ==
    LET text == {k \in 1 .. Len(s) : s[k] # " "}
    IN IF text = {} THEN << >>
       ELSE SubSeq(s, CHOOSE k \in text : \A j \in text : k <= j,
                      CHOOSE k \in text : \A j \in text : k >= j)

NaN == [nan |-> TRUE, n |-> 0]

isNaN(v) == v.nan

\* The value of the character c as a digit of the given radix, -1 if none.
DigitValue(c, radix) ==
    LET lower == <<"0", "1", "2", "3", "4", "5", "6", "7", "8", "9",
                   "a", "b", "c", "d", "e", "f">>
        upper == <<"0", "1", "2", "3", "4", "5", "6", "7", "8", "9",
                   "A", "B", "C", "D", "E", "F">>
    IN IF \E d \in 1 .. radix : lower[d] = c \/ upper[d] = c
       THEN (CHOOSE d \in 1 .. radix : lower[d] = c \/ upper[d] = c) - 1
       ELSE -1

\* The longest prefix of s made of digits, read in the radix.
RECURSIVE ParseDigits(_, _, _, _)
ParseDigits(s, radix, acc, seen) ==
    IF s # << >> /\ DigitValue(Head(s), radix) >= 0
    THEN ParseDigits(Tail(s), radix, radix * acc + DigitValue(Head(s), radix), TRUE)
    ELSE IF seen THEN [nan |-> FALSE, n |-> acc] ELSE NaN

\* parseInt(x) without a radix: leading white space is skipped, a sign is
\* read, a 0x prefix selects radix 16, and the digits are read up to the
\* first character that is not one; NaN when there is no digit.
parseInt(x) ==
    IF x = undefined THEN NaN
    ELSE LET text == {k \in 1 .. Len(x) : x[k] # " "}
             t    == IF text = {} THEN << >>
                     ELSE SubSeq(x, CHOOSE k \in text : \A j \in text : k <= j,
                                    Len(x))
             neg  == t # << >> /\ Head(t) = "-"
             u    == IF t # << >> /\ Head(t) \in {"-", "+"} THEN Tail(t) ELSE t
             hex  == Len(u) >= 2 /\ u[1] = "0" /\ u[2] \in {"x", "X"}
             v    == IF hex THEN ParseDigits(SubSeq(u, 3, Len(u)), 16, 0, FALSE)
                     ELSE ParseDigits(u, 10, 0, FALSE)
         IN IF isNaN(v) THEN NaN
            ELSE [nan |-> FALSE, n |-> IF neg THEN 0 - v.n ELSE v.n]

\* newCustodian.match(/^0x[a-fA-F0-9]{40}$/)
match_address(s) ==
    /\ Len(s) = 42
    /\ s[1] = "0" /\ s[2] = "x"
    /\ \A i \in 3 .. 42 : DigitValue(s[i], 16) >= 0

\* The 42 characters of an address of the model.
AddressString(a) ==
    LET c == CASE a = ZeroAddress -> "0"
               [] a = Deployer    -> "d"
               [] a = P1          -> "a"
               [] a = P2          -> "b"
    IN <<"0", "x">> \o [i \in 1 .. 40 |-> c]

\* The address a well-formed string stands for.
getAddress(s) == CHOOSE a \in Addresses : AddressString(a) = s

\* File contents, and their SHA-256 digest as a bytes32
BufX == <<"x">>
BufY == <<"y">>

computeHash(buffer) ==
    CASE buffer = BufX -> 1
      [] buffer = BufY -> 2

\* The CID the IPFS node gives a content.
cid_of(buffer) ==
    CASE buffer = BufX -> <<"Q", "m", "X">>
      [] buffer = BufY -> <<"Q", "m", "Y">>

\* A uint256 passed where the ABI expects a Status: the members are the
\* powers of two, any other value below 16 is a combination of flags.
abi_status(n) ==
    CASE n = 1 -> Collected
      [] n = 2 -> InAnalysis
      [] n = 4 -> Archived
      [] n = 8 -> Invalidated
      [] OTHER -> "flags"

\* The account whose key signs the backend's transactions.
Wallet == Deployer

\* The body and parameters of a request; fields not sent are undefined.
NoParams ==
    [id |-> undefined, file |-> undefined, description |-> undefined,
     caseId |-> undefined, fileType |-> undefined, newCustodian |-> undefined,
     reason |-> undefined, status |-> undefined]

\* res.status(code).json(...)
Respond(code, error, data) == [status |-> code, error |-> error, data |-> data]

\* next(error): the error handler answers with err.status || 500.
next(error) == Respond(500, error, undefined)

\* Variant: the check is skipped.
_ensureInitialized_skipped(service) == TRUE

\* _ensureInitialized of either service: TRUE iff it does not throw.
_ensureInitialized(service) == service.initialized

\* A request can be taken when none is being handled and the process runs.
Accepting == req.pc \in {"idle", "done"} /\ server # "exited"

\* ------------------------------------------------------------------------
\* Start of the server
\* ------------------------------------------------------------------------
\* initializeServices, up to its first await: ipfsService.initialize()
\* resolves, or throws and leaves the flag as it is.
IPFSService_initialize ==
    /\ server = "initializeServices"
    /\ \/ /\ ipfsService' = [ipfsService EXCEPT !.initialized = TRUE]
          /\ server' = "blockchainService.initialize"
       \/ /\ ipfsService' = ipfsService
          /\ server' = "not initialized"
    /\ UNCHANGED <<storage, now, tx, blockchainService, ipfs, req>>

BlockchainService_initialize ==
    /\ server = "blockchainService.initialize"
    /\ \/ /\ blockchainService' = [blockchainService EXCEPT !.initialized = TRUE]
          /\ server' = "initialized"
       \/ /\ blockchainService' = blockchainService
          /\ server' = "not initialized"
    /\ UNCHANGED <<storage, now, tx, ipfsService, ipfs, req>>

\* start(), after initializeServices has returned.
start ==
    /\ server \in {"initialized", "not initialized"}
    /\ server' = IF server = "initialized" THEN "listening" ELSE "exited"
    /\ UNCHANGED <<storage, now, tx, blockchainService, ipfsService, ipfs, req>>

\* ------------------------------------------------------------------------
\* IPFS service
\* ------------------------------------------------------------------------
\* ipfsService.uploadFile(buffer) called for the request r: the content is
\* stored and its CID returned, or the call fails.
uploadFile(r, buffer) ==
    IF ~_ensureInitialized(ipfsService)
    THEN /\ req' = [r EXCEPT !.pc = "done",
                             !.res = next("IPFS service not initialized")]
         /\ ipfs' = ipfs
    ELSE \/ /\ ipfs' = [ipfs EXCEPT !.blocks = @ \cup {cid_of(buffer)}]
            /\ req' = [r EXCEPT !.pc = "pinFile", !.cid = cid_of(buffer),
                                !.calls = Append(@, "ipfs.add")]
         \/ /\ ipfs' = ipfs
            /\ req' = [r EXCEPT !.pc = "done",
                                !.calls = Append(@, "ipfs.add"),
                                !.res = next("IPFS upload error")]

\* Variant: a failed pin is not reported.
pinFile_failure_ignored ==
    /\ req.pc = "pinFile" /\ server # "exited"
    /\ \/ ipfs' = [ipfs EXCEPT !.pins = @ \cup {req.cid}]
       \/ ipfs' = ipfs
    /\ req' = [req EXCEPT !.pc = "ledger", !.calls = Append(@, "ipfs.pin.add")]
    /\ UNCHANGED <<storage, now, tx, blockchainService, ipfsService, server>>

\* await ipfsService.pinFile(cid), in registerEvidence and in addFile.
pinFile ==
    /\ req.pc = "pinFile" /\ server # "exited"
    /\ IF ~_ensureInitialized(ipfsService)
       THEN /\ req' = [req EXCEPT !.pc = "done",
                                  !.res = next("IPFS service not initialized")]
            /\ ipfs' = ipfs
       ELSE \/ /\ ipfs' = [ipfs EXCEPT !.pins = @ \cup {req.cid}]
               /\ req' = [req EXCEPT !.pc = "ledger",
                                     !.calls = Append(@, "ipfs.pin.add")]
            \/ /\ ipfs' = ipfs
               /\ req' = [req EXCEPT !.pc = "done",
                                     !.calls = Append(@, "ipfs.pin.add"),
                                     !.res = next("IPFS pin error")]
    /\ UNCHANGED <<storage, now, tx, blockchainService, ipfsService, server>>

\* ------------------------------------------------------------------------
\* Controllers and the blockchain service
\* ------------------------------------------------------------------------
\* POST /api/evidences, up to the await of uploadFile.
registerEvidence(body) ==
    /\ Accepting
    /\ LET r   == [NoRequest EXCEPT !.handler = "registerEvidence",
                                    !.params = body]
           err == IF body.file = undefined THEN "No file uploaded"
                  ELSE IF Falsy(body.description)
                            \/ Len(trim(body.description)) = 0
                  THEN "Description is required"
                  ELSE IF Falsy(body.caseId) \/ Len(trim(body.caseId)) = 0
                  THEN "Case ID is required"
                  ELSE ""
       IN IF err # ""
          THEN /\ req' = [r EXCEPT !.pc = "done",
                                   !.res = Respond(400, err, undefined)]
               /\ ipfs' = ipfs
          ELSE uploadFile([r EXCEPT !.fileHash = computeHash(body.file)],
                          body.file)
    /\ UNCHANGED <<storage, now, tx, blockchainService, ipfsService, server>>

\* blockchainService.registerEvidence: the transaction is mined and its
\* receipt read; parsed tells whether a log of the receipt parses as
\* EvidenceRegistered.  The digest computeHash returns always has the
\* format tested at the start.
BlockchainService_registerEvidence(parsed) ==
    /\ req.pc = "ledger" /\ req.handler = "registerEvidence" /\ server # "exited"
    /\ IF ~_ensureInitialized(blockchainService)
       THEN /\ req' = [req EXCEPT !.pc = "done",
                          !.res = next("Blockchain service not initialized")]
            /\ UNCHANGED <<storage, now, tx>>
       ELSE /\ Register(Wallet, <<req.fileHash, req.cid,
                                  req.params.description, req.params.caseId>>)
            /\ LET called == [req EXCEPT
                                !.calls = Append(@, "contract.register_evidence")]
               IN IF ~tx'.ok
                  THEN req' = [called EXCEPT !.pc = "done",
                                             !.res = next("Blockchain error")]
                  ELSE IF parsed
                  THEN req' = [called EXCEPT
                                 !.pc = "done",
                                 !.evidenceId = tx'.logs[1].id,
                                 !.res = Respond(201, "",
                                            [evidenceId |-> tx'.logs[1].id,
                                             fileHash |-> req.fileHash,
                                             ipfsCid |-> req.cid])]
                  ELSE req' = [called EXCEPT !.pc = "evidence_counter"]
    /\ UNCHANGED <<blockchainService, ipfsService, ipfs, server>>

\* The fallback of blockchainService.registerEvidence: the id is the value
\* of evidence_counter read after the confirmation.
evidence_counter_fallback ==
    /\ req.pc = "evidence_counter" /\ server # "exited"
    /\ req' = [req EXCEPT
                 !.pc = "done",
                 !.evidenceId = evidence_counter,
                 !.calls = Append(@, "contract.evidence_counter"),
                 !.res = Respond(201, "",
                            [evidenceId |-> evidence_counter,
                             fileHash |-> req.fileHash,
                             ipfsCid |-> req.cid])]
    /\ UNCHANGED <<storage, now, tx, blockchainService, ipfsService, ipfs, server>>

\* POST /api/evidences/:id/files, up to the await of uploadFile.
addFile(body) ==
    /\ Accepting
    /\ LET evidenceId == parseInt(body.id)
           r   == [NoRequest EXCEPT !.handler = "addFile", !.params = body]
           err == IF isNaN(evidenceId) \/ evidenceId.n < 1
                  THEN "Invalid evidence ID"
                  ELSE IF body.file = undefined THEN "No file uploaded"
                  ELSE IF Falsy(body.fileType) \/ Len(trim(body.fileType)) = 0
                  THEN "File type is required"
                  ELSE ""
       IN IF err # ""
          THEN /\ req' = [r EXCEPT !.pc = "done",
                                   !.res = Respond(400, err, undefined)]
               /\ ipfs' = ipfs
          ELSE uploadFile([r EXCEPT !.evidenceId = evidenceId.n,
                                    !.fileHash = computeHash(body.file)],
                          body.file)
    /\ UNCHANGED <<storage, now, tx, blockchainService, ipfsService, server>>

\* blockchainService.addFileToEvidence: the transaction is mined.
BlockchainService_addFileToEvidence ==
    /\ req.pc = "ledger" /\ req.handler = "addFile" /\ server # "exited"
    /\ IF ~_ensureInitialized(blockchainService)
       THEN /\ req' = [req EXCEPT !.pc = "done",
                          !.res = next("Blockchain service not initialized")]
            /\ UNCHANGED <<storage, now, tx>>
       ELSE /\ add_file_to_evidence(Wallet, req.evidenceId, req.fileHash,
                                    req.cid, req.params.fileType)
            /\ LET called == [req EXCEPT !.pc = "done",
                                !.calls = Append(@, "contract.add_file_to_evidence")]
               IN IF tx'.ok
                  THEN req' = [called EXCEPT
                                 !.res = Respond(201, "",
                                            [evidenceId |-> req.evidenceId,
                                             fileHash |-> req.fileHash,
                                             ipfsCid |-> req.cid])]
                  ELSE req' = [called EXCEPT !.res = next("Blockchain error")]
    /\ UNCHANGED <<blockchainService, ipfsService, ipfs, server>>

\* POST /api/evidences/:id/transfer with blockchainService.transferCustody.
transferCustody(body) ==
    /\ Accepting
    /\ LET evidenceId == parseInt(body.id)
           r   == [NoRequest EXCEPT !.handler = "transferCustody",
                                    !.params = body, !.pc = "done"]
           err == IF isNaN(evidenceId) \/ evidenceId.n < 1
                  THEN "Invalid evidence ID"
                  ELSE IF Falsy(body.newCustodian)
                            \/ ~match_address(body.newCustodian)
                  THEN "Invalid custodian address"
                  ELSE IF Falsy(body.reason) \/ Len(trim(body.reason)) = 0
                  THEN "Transfer reason is required"
                  ELSE ""
       IN IF err # ""
          THEN /\ req' = [r EXCEPT !.res = Respond(400, err, undefined)]
               /\ UNCHANGED <<storage, now, tx>>
          ELSE IF ~_ensureInitialized(blockchainService)
          THEN /\ req' = [r EXCEPT
                            !.res = next("Blockchain service not initialized")]
               /\ UNCHANGED <<storage, now, tx>>
          ELSE /\ transfer_custody(Wallet, evidenceId.n,
                                   getAddress(body.newCustodian), body.reason)
               /\ LET called == [r EXCEPT
                                   !.evidenceId = evidenceId.n,
                                   !.calls = <<"contract.transfer_custody">>]
                  IN IF tx'.ok
                     THEN req' = [called EXCEPT
                                    !.res = Respond(200, "",
                                               [evidenceId |-> evidenceId.n])]
                     ELSE req' = [called EXCEPT !.res = next("Blockchain error")]
    /\ UNCHANGED <<blockchainService, ipfsService, ipfs, server>>

\* POST /api/evidences/:id/status with blockchainService.setStatus.
changeStatus(body) ==
    /\ Accepting
    /\ LET evidenceId == parseInt(body.id)
           statusNum  == parseInt(body.status)
           r   == [NoRequest EXCEPT !.handler = "changeStatus",
                                    !.params = body, !.pc = "done"]
           err == IF isNaN(evidenceId) \/ evidenceId.n < 1
                  THEN "Invalid evidence ID"
                  ELSE IF isNaN(statusNum) \/ statusNum.n < 0 \/ statusNum.n > 3
                  THEN "Invalid status"
                  ELSE ""
       IN IF err # ""
          THEN /\ req' = [r EXCEPT !.res = Respond(400, err, undefined)]
               /\ UNCHANGED <<storage, now, tx>>
          ELSE IF ~_ensureInitialized(blockchainService)
          THEN /\ req' = [r EXCEPT
                            !.res = next("Blockchain service not initialized")]
               /\ UNCHANGED <<storage, now, tx>>
          ELSE /\ set_status(Wallet, evidenceId.n, abi_status(statusNum.n))
               /\ LET called == [r EXCEPT
                                   !.evidenceId = evidenceId.n,
                                   !.calls = <<"contract.set_status">>]
                  IN IF tx'.ok
                     THEN req' = [called EXCEPT
                                    !.res = Respond(200, "",
                                               [evidenceId |-> evidenceId.n,
                                                newStatus |-> statusNum.n])]
                     ELSE req' = [called EXCEPT !.res = next("Blockchain error")]
    /\ UNCHANGED <<blockchainService, ipfsService, ipfs, server>>

\* blockchainService.grantRole, called by a module of the process.
BlockchainService_grantRole(account, role) ==
    /\ Accepting
    /\ LET r == [NoRequest EXCEPT !.handler = "grantRole", !.pc = "done"]
       IN IF ~_ensureInitialized(blockchainService)
          THEN /\ req' = [r EXCEPT
                            !.res = next("Blockchain service not initialized")]
               /\ UNCHANGED <<storage, now, tx>>
          ELSE /\ grant_role(Wallet, account, role)
               /\ req' = [r EXCEPT !.calls = <<"contract.grant_role">>,
                                   !.res = IF tx'.ok THEN Respond(200, "", undefined)
                                           ELSE next("Blockchain error")]
    /\ UNCHANGED <<blockchainService, ipfsService, ipfs, server>>

\* The methods that only read, called by a module of the process:
\* getEvidenceCount, getAllEvidences and verifyIntegrity of the blockchain
\* service, getFile and getFileStats of the IPFS service.  Each calls
\* _ensureInitialized first; what it reads is left out.
Service_read(service, name, callee, method) ==
    /\ Accepting
    /\ LET r == [NoRequest EXCEPT !.handler = method, !.pc = "done"]
       IN IF ~_ensureInitialized(service)
          THEN req' = [r EXCEPT !.res = next(name \o " service not initialized")]
          ELSE req' = [r EXCEPT !.calls = <<callee \o "." \o method>>,
                                !.res = Respond(200, "", undefined)]
    /\ UNCHANGED <<storage, now, tx, blockchainService, ipfsService, ipfs, server>>

\* What blockchainService.getEvidence makes of the struct returned.
Evidence_json(evidence) ==
    [id |-> evidence.id, fileHash |-> evidence.file_hash,
     ipfsCid |-> evidence.ipfs_cid, description |-> evidence.description,
     caseId |-> evidence.case_id, creator |-> evidence.creator,
     currentCustodian |-> evidence.current_custodian,
     createdAt |-> evidence.created_at, status |-> convert(evidence.status),
     exists |-> evidence.exists]

\* What blockchainService.getCustodyHistory makes of the array returned.
CustodyHistory_json(history) ==
    [k \in 1 .. Len(history) |->
        [fromAddress |-> history[k].from_address,
         toAddress |-> history[k].to_address,
         timestamp |-> history[k].timestamp, reason |-> history[k].reason]]

\* GET /api/evidences/:id, up to the await of blockchainService.getEvidence.
getEvidenceById(body) ==
    /\ Accepting
    /\ LET evidenceId == parseInt(body.id)
           r == [NoRequest EXCEPT !.handler = "getEvidenceById",
                                  !.params = body]
       IN IF isNaN(evidenceId) \/ evidenceId.n < 1
          THEN req' = [r EXCEPT !.pc = "done",
                          !.res = Respond(400, "Invalid evidence ID", undefined)]
          ELSE IF ~_ensureInitialized(blockchainService)
          THEN req' = [r EXCEPT !.pc = "done",
                          !.res = next("Blockchain service not initialized")]
          ELSE LET v == get_evidence(evidenceId.n)
                   called == [r EXCEPT !.evidenceId = evidenceId.n,
                                       !.calls = <<"contract.get_evidence">>]
               IN IF v.ok
                  THEN req' = [called EXCEPT !.pc = "getCustodyHistory",
                                             !.evidence = Evidence_json(v.ret)]
                  ELSE req' = [called EXCEPT !.pc = "done",
                                             !.res = next("Blockchain error")]
    /\ UNCHANGED <<storage, now, tx, blockchainService, ipfsService, ipfs, server>>

\* await blockchainService.getCustodyHistory(evidenceId)
getCustodyHistory ==
    /\ req.pc = "getCustodyHistory" /\ server # "exited"
    /\ LET v == get_custody_history(req.evidenceId)
           called == [req EXCEPT
                        !.calls = Append(@, "contract.get_custody_history")]
       IN IF v.ok
          THEN req' = [called EXCEPT !.pc = "getEvidenceFiles",
                                     !.custodyHistory = CustodyHistory_json(v.ret)]
          ELSE req' = [called EXCEPT !.pc = "done",
                                     !.res = next("Blockchain error")]
    /\ UNCHANGED <<storage, now, tx, blockchainService, ipfsService, ipfs, server>>

\* await blockchainService.getEvidenceFiles(evidenceId), and the response.
getEvidenceFiles ==
    /\ req.pc = "getEvidenceFiles" /\ server # "exited"
    /\ LET v == get_evidence_files(req.evidenceId)
           called == [req EXCEPT !.pc = "done",
                        !.calls = Append(@, "contract.get_evidence_files")]
       IN IF v.ok
          THEN req' = [called EXCEPT
                         !.res = Respond(200, "",
                                    [currentCustodian |-> req.evidence.currentCustodian,
                                     status |-> req.evidence.status,
                                     custodyHistory |-> req.custodyHistory,
                                     additionalFiles |->
                                        [k \in 1 .. Len(v.ret) |->
                                            [fileHash |-> v.ret[k].file_hash,
                                             ipfsCid |-> v.ret[k].ipfs_cid]]])]
          ELSE req' = [called EXCEPT !.res = next("Blockchain error")]
    /\ UNCHANGED <<storage, now, tx, blockchainService, ipfsService, ipfs, server>>

\* ------------------------------------------------------------------------
\* Spec: the life of one artifact (one well-formed digest) between the
\* deployer and a second principal that may be enrolled as LAB.
\* ------------------------------------------------------------------------
Callers == {Deployer, P1}

\* (account, role)
RoleInputs == {<<P1, ROLE_LAB>>}

\* (file_hash, ipfs_cid, description, case_id)
RegisterInputs == {<<1, StrA, StrB, StrA>>}

\* (evidence_id, new_custodian, reason)
TransferInputs == {<<1, Deployer, StrA>>, <<1, P1, StrA>>}

\* (evidence_id, file_hash, ipfs_cid, file_type)
FileInputs == {<<1, 1, StrA, StrA>>}

GrantRole ==
    /\ \E s \in Callers, inp \in RoleInputs : grant_role(s, inp[1], inp[2])
    /\ UNCHANGED backend_vars

RevokeRole ==
    /\ \E s \in Callers, inp \in RoleInputs : revoke_role(s, inp[1], inp[2])
    /\ UNCHANGED backend_vars

RegisterEvidence ==
    /\ \E s \in Callers, inp \in RegisterInputs : Register(s, inp)
    /\ UNCHANGED backend_vars

TransferCustody ==
    /\ \E s \in Callers, inp \in TransferInputs :
           transfer_custody(s, inp[1], inp[2], inp[3])
    /\ UNCHANGED backend_vars

SetStatus ==
    /\ \E s \in Callers, st \in Status : set_status(s, 1, st)
    /\ UNCHANGED backend_vars

AddFileToEvidence ==
    /\ \E s \in Callers, inp \in FileInputs :
           add_file_to_evidence(s, inp[1], inp[2], inp[3], inp[4])
    /\ UNCHANGED backend_vars

Next ==
    \/ NewBlock
    \/ GrantRole
    \/ RevokeRole
    \/ RegisterEvidence
    \/ TransferCustody
    \/ SetStatus
    \/ AddFileToEvidence

Spec == Init /\ [][Next]_vars

\* ------------------------------------------------------------------------
\* SpecRegistry: registrations of two digests by three principals, P1
\* enrolled as POLICE and P2 as LAB by the admin, with one hand-over.
\* ------------------------------------------------------------------------
RegistryRoleInputs == {<<P1, ROLE_POLICE>>, <<P2, ROLE_LAB>>}

RegistryRegisterInputs ==
    {<<1, StrA, StrA, StrA>>, <<1, StrB, StrB, StrB>>, <<2, StrA, StrA, StrA>>,
     <<ZeroHash, StrA, StrA, StrA>>}

RegistryTransferInputs == {<<1, P2, StrA>>}

RegistryGrantRole ==
    /\ \E s \in Senders, inp \in RegistryRoleInputs : grant_role(s, inp[1], inp[2])
    /\ UNCHANGED backend_vars

RegistryRevokeRole ==
    /\ \E s \in Senders, inp \in RegistryRoleInputs : revoke_role(s, inp[1], inp[2])
    /\ UNCHANGED backend_vars

RegistryRegisterEvidence ==
    /\ \E s \in Senders, inp \in RegistryRegisterInputs : Register(s, inp)
    /\ UNCHANGED backend_vars

RegistryTransferCustody ==
    /\ \E s \in Senders, inp \in RegistryTransferInputs :
           transfer_custody(s, inp[1], inp[2], inp[3])
    /\ UNCHANGED backend_vars

NextRegistry ==
    \/ NewBlock
    \/ RegistryGrantRole
    \/ RegistryRevokeRole
    \/ RegistryRegisterEvidence
    \/ RegistryTransferCustody

SpecRegistry == Init /\ [][NextRegistry]_vars

\* ------------------------------------------------------------------------
\* SpecRBAC: role administration alone; every role of the deployer and of
\* P1 can be granted and revoked, by any of the three principals.
\* ------------------------------------------------------------------------
RbacRoleInputs ==
    {<<a, r>> : a \in {Deployer, P1}, r \in ValidRoles}
        \cup {<<P2, ROLE_LAB>>, <<ZeroAddress, ROLE_POLICE>>,
              <<P1, 0>>, <<P1, 3>>, <<P1, 15>>, <<P1, 16>>}

RbacGrantRole ==
    /\ \E s \in Senders, inp \in RbacRoleInputs : grant_role(s, inp[1], inp[2])
    /\ UNCHANGED backend_vars

RbacRevokeRole ==
    /\ \E s \in Senders, inp \in RbacRoleInputs : revoke_role(s, inp[1], inp[2])
    /\ UNCHANGED backend_vars

NextRBAC ==
    \/ RbacGrantRole
    \/ RbacRevokeRole

SpecRBAC == Init /\ [][NextRBAC]_vars

\* ------------------------------------------------------------------------
\* SpecStatus: one artifact whose status is changed and to which files are
\* attached by the deployer and by P1, who may hold any subset of the four
\* roles.
\* ------------------------------------------------------------------------
StatusRoleInputs == {<<P1, r>> : r \in ValidRoles}

StatusGrantRole ==
    /\ \E inp \in StatusRoleInputs : grant_role(Deployer, inp[1], inp[2])
    /\ UNCHANGED backend_vars

StatusRevokeRole ==
    /\ \E inp \in StatusRoleInputs : revoke_role(Deployer, inp[1], inp[2])
    /\ UNCHANGED backend_vars

StatusRegisterEvidence ==
    /\ \E s \in Callers, inp \in RegisterInputs : Register(s, inp)
    /\ UNCHANGED backend_vars

StatusSetStatus ==
    /\ \E s \in Callers, st \in Status : set_status(s, 1, st)
    /\ UNCHANGED backend_vars

StatusAddFileToEvidence ==
    /\ \E s \in Callers, inp \in FileInputs :
           add_file_to_evidence(s, inp[1], inp[2], inp[3], inp[4])
    /\ UNCHANGED backend_vars

NextStatus ==
    \/ StatusGrantRole
    \/ StatusRevokeRole
    \/ StatusRegisterEvidence
    \/ StatusSetStatus
    \/ StatusAddFileToEvidence

SpecStatus == Init /\ [][NextStatus]_vars

\* ------------------------------------------------------------------------
\* SpecRejections: the six state-changing functions called by the deployer
\* and by P1 (enrolled as LAB or not) with well-formed and with ill-formed
\* arguments: unknown ids, null addresses, empty strings, the zero digest.
\* ------------------------------------------------------------------------
RejectRoleInputs == {<<P1, ROLE_LAB>>, <<P1, 0>>, <<ZeroAddress, ROLE_LAB>>}

RejectRegisterInputs ==
    {<<1, StrA, StrA, StrA>>, <<ZeroHash, StrA, StrA, StrA>>,
     <<1, EmptyString, StrA, StrA>>, <<1, StrA, EmptyString, StrA>>,
     <<1, StrA, StrA, EmptyString>>}

RejectTransferInputs ==
    {<<1, a, StrA>> : a \in {ZeroAddress, Deployer, P1}}
        \cup {<<1, P1, EmptyString>>, <<1, Deployer, EmptyString>>,
              <<2, P1, StrA>>}

RejectFileInputs ==
    {<<1, 1, StrA, StrA>>, <<2, 1, StrA, StrA>>, <<1, ZeroHash, StrA, StrA>>,
     <<1, 1, EmptyString, StrA>>, <<1, 1, StrA, EmptyString>>}

RejectGrantRole ==
    /\ \E s \in Callers, inp \in RejectRoleInputs : grant_role(s, inp[1], inp[2])
    /\ UNCHANGED backend_vars

RejectRevokeRole ==
    /\ \E s \in Callers, inp \in RejectRoleInputs : revoke_role(s, inp[1], inp[2])
    /\ UNCHANGED backend_vars

RejectRegisterEvidence ==
    /\ \E s \in Callers, inp \in RejectRegisterInputs : Register(s, inp)
    /\ UNCHANGED backend_vars

RejectTransferCustody ==
    /\ \E s \in Callers, inp \in RejectTransferInputs :
           transfer_custody(s, inp[1], inp[2], inp[3])
    /\ UNCHANGED backend_vars

RejectSetStatus ==
    /\ \E s \in Callers, i \in {1, 2}, st \in Status : set_status(s, i, st)
    /\ UNCHANGED backend_vars

RejectAddFileToEvidence ==
    /\ \E s \in Callers, inp \in RejectFileInputs :
           add_file_to_evidence(s, inp[1], inp[2], inp[3], inp[4])
    /\ UNCHANGED backend_vars

NextRejections ==
    \/ RejectGrantRole
    \/ RejectRevokeRole
    \/ RejectRegisterEvidence
    \/ RejectTransferCustody
    \/ RejectSetStatus
    \/ RejectAddFileToEvidence

SpecRejections == Init /\ [][NextRejections]_vars

\* ------------------------------------------------------------------------
\* SpecFrame: two artifacts side by side, registered by the deployer, handed
\* over between the deployer and P1 (enrolled as LAB or not), with status
\* changes on either and attachments by the deployer on the first.
\* ------------------------------------------------------------------------
FrameRegisterInputs == {<<1, StrA, StrA, StrA>>, <<2, StrA, StrA, StrA>>}

FrameTransferInputs == {<<i, a, StrA>> : i \in {1, 2}, a \in Callers}

FrameFileInputs == {<<1, 1, StrA, StrA>>}

FrameGrantRole ==
    /\ \E inp \in RoleInputs : grant_role(Deployer, inp[1], inp[2])
    /\ UNCHANGED backend_vars

FrameRevokeRole ==
    /\ \E inp \in RoleInputs : revoke_role(Deployer, inp[1], inp[2])
    /\ UNCHANGED backend_vars

FrameRegisterEvidence ==
    /\ \E inp \in FrameRegisterInputs : Register(Deployer, inp)
    /\ UNCHANGED backend_vars

FrameTransferCustody ==
    /\ \E s \in Callers, inp \in FrameTransferInputs :
           transfer_custody(s, inp[1], inp[2], inp[3])
    /\ UNCHANGED backend_vars

FrameSetStatus ==
    /\ \E s \in Callers, i \in {1, 2}, st \in Status : set_status(s, i, st)
    /\ UNCHANGED backend_vars

FrameAddFileToEvidence ==
    /\ \E inp \in FrameFileInputs :
           add_file_to_evidence(Deployer, inp[1], inp[2], inp[3], inp[4])
    /\ UNCHANGED backend_vars

NextFrame ==
    \/ FrameGrantRole
    \/ FrameRevokeRole
    \/ FrameRegisterEvidence
    \/ FrameTransferCustody
    \/ FrameSetStatus
    \/ FrameAddFileToEvidence

SpecFrame == Init /\ [][NextFrame]_vars

\* ------------------------------------------------------------------------
\* SpecAttach: the deployer registers two digests and attaches files with
\* the same two digests to either evidence.
\* ------------------------------------------------------------------------
AttachFileInputs == {<<i, h, StrA, StrA>> : i \in {1, 2}, h \in {1, 2}}

AttachRegisterEvidence ==
    /\ \E inp \in FrameRegisterInputs : Register(Deployer, inp)
    /\ UNCHANGED backend_vars

AttachAddFileToEvidence ==
    /\ \E inp \in AttachFileInputs :
           add_file_to_evidence(Deployer, inp[1], inp[2], inp[3], inp[4])
    /\ UNCHANGED backend_vars

NextAttach ==
    \/ NewBlock
    \/ AttachRegisterEvidence
    \/ AttachAddFileToEvidence

SpecAttach == Init /\ [][NextAttach]_vars

\* ------------------------------------------------------------------------
\* SpecSnapshot: the server reads evidence 1 for GET /api/evidences/1 while
\* the deployer and P1 pass it to each other.
\* ------------------------------------------------------------------------
NextSnapshot ==
    \/ IPFSService_initialize
    \/ BlockchainService_initialize
    \/ start
    \/ GrantRole
    \/ RegisterEvidence
    \/ TransferCustody
    \/ /\ server = "listening"
       /\ getEvidenceById([NoParams EXCEPT !.id = <<"1">>])
    \/ getCustodyHistory
    \/ getEvidenceFiles

SpecSnapshot == Init /\ [][NextSnapshot]_vars

\* ------------------------------------------------------------------------
\* SpecIds: the server registers the contents X and Y while P1, enrolled as
\* POLICE, registers digests of its own; the receipt's log may or may not
\* be parsed.
\* ------------------------------------------------------------------------
NextIds ==
    \/ IPFSService_initialize
    \/ BlockchainService_initialize
    \/ start
    \/ /\ grant_role(Deployer, P1, ROLE_POLICE)
       /\ UNCHANGED backend_vars
    \/ /\ \E h \in {1, 2} : Register(P1, <<h, StrB, StrB, StrB>>)
       /\ UNCHANGED backend_vars
    \/ /\ server = "listening"
       /\ \E b \in {BufX, BufY} :
             registerEvidence([NoParams EXCEPT !.file = b,
                                 !.description = StrA, !.caseId = StrA])
    \/ pinFile
    \/ \E parsed \in BOOLEAN : BlockchainService_registerEvidence(parsed)
    \/ evidence_counter_fallback

SpecIds == Init /\ [][NextIds]_vars

\* ------------------------------------------------------------------------
\* SpecBackend: requests of the five kinds, well-formed and malformed, put
\* to the controllers whenever the process runs, before or after the
\* services are initialized.
\* ------------------------------------------------------------------------
BackendRegisterBodies ==
    {[NoParams EXCEPT !.file = f, !.description = d, !.caseId = c] :
        f \in {BufX, undefined}, d \in {StrA, <<" ">>}, c \in {StrA}}
      \cup {[NoParams EXCEPT !.file = BufX, !.description = StrA, !.caseId = c] :
              c \in {<<" ", " ">>, undefined}}

BackendFileBodies ==
    {[NoParams EXCEPT !.id = i, !.file = BufY, !.fileType = StrA] :
        i \in {<<"1">>, <<"0">>, <<"a">>, <<"1", ".", "5">>}}
      \cup {[NoParams EXCEPT !.id = <<"1">>, !.fileType = StrA],
            [NoParams EXCEPT !.id = <<"1">>, !.file = BufY, !.fileType = <<" ">>]}

BackendTransferBodies ==
    LET to == AddressString(P1)
    IN {[NoParams EXCEPT !.id = i, !.newCustodian = to, !.reason = StrA] :
           i \in {<<"1">>, <<"1", "a">>, << >>}}
         \cup {[NoParams EXCEPT !.id = <<"1">>, !.newCustodian = a,
                                !.reason = StrA] :
                 a \in {SubSeq(to, 1, 41), [to EXCEPT ![42] = "g"],
                        SubSeq(to, 3, 42), undefined}}
         \cup {[NoParams EXCEPT !.id = <<"1">>, !.newCustodian = to,
                                !.reason = r] :
                 r \in {<<" ">>, undefined}}

BackendStatusBodies ==
    {[NoParams EXCEPT !.id = <<"1">>, !.status = st] :
        st \in {<<"1">>, <<"2">>, <<"4">>, <<"-", "1">>, <<"x">>, undefined}}
      \cup {[NoParams EXCEPT !.id = <<"0">>, !.status = <<"2">>]}

BackendReadBodies ==
    {[NoParams EXCEPT !.id = i] : i \in {<<"1">>, <<"x">>}}

NextBackend ==
    \/ IPFSService_initialize
    \/ BlockchainService_initialize
    \/ start
    \/ BlockchainService_grantRole(P1, ROLE_LAB)
    \/ \E method \in {"getEvidenceCount", "getAllEvidences", "verifyIntegrity"} :
          Service_read(blockchainService, "Blockchain", "contract", method)
    \/ \E method \in {"getFile", "getFileStats"} :
          Service_read(ipfsService, "IPFS", "ipfs", method)
    \/ \E body \in BackendRegisterBodies : registerEvidence(body)
    \/ \E body \in BackendFileBodies : addFile(body)
    \/ \E body \in BackendTransferBodies : transferCustody(body)
    \/ \E body \in BackendStatusBodies : changeStatus(body)
    \/ \E body \in BackendReadBodies : getEvidenceById(body)
    \/ pinFile
    \/ BlockchainService_registerEvidence(TRUE)
    \/ BlockchainService_addFileToEvidence
    \/ getCustodyHistory
    \/ getEvidenceFiles

SpecBackend == Init /\ [][NextBackend]_vars

\* ------------------------------------------------------------------------
\* Properties
\* ------------------------------------------------------------------------
Existing == {i \in EvidenceIds : evidences[i].exists}

\* A step that executes a transaction calling fn (a new block changes now).
Called(fn) == now' = now /\ tx'.fn = fn

\* --- Status FSM ---------------------------------------------------------
Terminal == {Archived, Invalidated}

AllowedTransitions ==
    {<<Collected, InAnalysis>>, <<Collected, Invalidated>>,
     <<InAnalysis, Archived>>, <<InAnalysis, Invalidated>>}

\* C1: the statuses an evidence takes form a path in the table
\* Collected->{InAnalysis, Invalidated}, InAnalysis->{Archived, Invalidated}:
\* every change of status follows an allowed edge, every successful set_status
\* starts from a non-terminal status and follows an allowed edge, and once the
\* status is Archived or Invalidated no step changes it.
C1_StatusFollowsTable ==
    [][\A i \in Existing :
          /\ evidences'[i].status # evidences[i].status
                => <<evidences[i].status, evidences'[i].status>> \in AllowedTransitions
          /\ evidences[i].status \in Terminal
                => evidences'[i].status = evidences[i].status
          /\ (Called("set_status") /\ tx'.ok /\ tx'.logs[1].id = i)
                => /\ evidences[i].status \notin Terminal
                   /\ convert(evidences'[i].status) = tx'.logs[1].new_status
                   /\ <<evidences[i].status, evidences'[i].status>>
                          \in AllowedTransitions]_vars

\* An archived evidence on which a set_status has just been refused.
C1_Witness ==
    /\ evidences[1].exists
    /\ evidences[1].status = Archived
    /\ tx.fn = "set_status" /\ ~tx.ok
    /\ tx.err = "Cannot transition from Archived"

\* --- Immutability -------------------------------------------------------
\* C2: once an evidence record exists, its id, content digest, content
\* locator, description, case id, creator and creation timestamp never change,
\* whatever step follows.
C2_CoreFieldsImmutable ==
    [][\A i \in Existing :
          /\ evidences'[i].exists
          /\ evidences'[i].id = evidences[i].id
          /\ evidences'[i].file_hash = evidences[i].file_hash
          /\ evidences'[i].ipfs_cid = evidences[i].ipfs_cid
          /\ evidences'[i].description = evidences[i].description
          /\ evidences'[i].case_id = evidences[i].case_id
          /\ evidences'[i].creator = evidences[i].creator
          /\ evidences'[i].created_at = evidences[i].created_at]_vars

\* An evidence registered in an earlier block that has since been handed
\* over twice, moved through the FSM, given a file, while roles were granted.
C2_Witness ==
    /\ evidences[1].exists
    /\ evidences[1].id = 1 /\ evidences[1].file_hash = 1
    /\ evidences[1].ipfs_cid = StrA /\ evidences[1].description = StrB
    /\ evidences[1].case_id = StrA /\ evidences[1].creator = Deployer
    /\ evidences[1].created_at < now
    /\ Len(custody_history[1]) = 3
    /\ evidences[1].status = Invalidated
    /\ Len(evidence_files[1]) = 1
    /\ roles[P1] = ROLE_LAB

\* --- Chain of custody ---------------------------------------------------
\* C3: for every existing evidence the custody history is non-empty and the
\* to-principal of its last entry is the evidence's current custodian.
C3_LastEntryIsCustodian ==
    \A i \in Existing :
        /\ Len(custody_history[i]) >= 1
        /\ custody_history[i][Len(custody_history[i])].to_address
              = evidences[i].current_custodian

\* An evidence that has been transferred and is held by a principal other
\* than its creator.
C3_Witness ==
    /\ evidences[1].exists
    /\ Len(custody_history[1]) = 2
    /\ evidences[1].current_custodian = P1
    /\ evidences[1].creator = Deployer

\* C4: the custody history is an unbroken chain: entry 1 goes from the zero
\* address to the creator, the from-principal of every later entry is the
\* to-principal of the entry before it, and no later entry starts at the zero
\* address.
C4_CustodyChainUnbroken ==
    \A i \in Existing :
        LET h == custody_history[i] IN
        /\ Len(h) >= 1
        /\ h[1].from_address = ZeroAddress
        /\ h[1].to_address = evidences[i].creator
        /\ \A k \in 2 .. Len(h) :
              /\ h[k].from_address = h[k-1].to_address
              /\ h[k].from_address # ZeroAddress

\* A history of three entries: registration, a transfer away from the creator
\* and a transfer by the second holder.
C4_Witness ==
    /\ evidences[1].exists
    /\ Len(custody_history[1]) = 3
    /\ custody_history[1][2].from_address = evidences[1].creator
    /\ custody_history[1][3].from_address # evidences[1].creator

\* --- Registry --------------------------------------------------------------
RegisteredDigests == {h \in Hashes : registered_hashes[h]}

DigestsOfExisting == {evidences[i].file_hash : i \in Existing}

\* C5 (SpecRegistry): register with a digest that is already registered fails
\* for every caller and whatever the other fields are, and a failed register
\* leaves the evidence counter, the evidence records, the custody histories and
\* the digest set unchanged, so the earlier id stays readable.
C5_DuplicateRejected ==
    [][/\ \A s \in Senders, inp \in RegistryRegisterInputs :
             registered_hashes[inp[1]]
                => register_error(s, inp[1], inp[2], inp[3], inp[4]) # ""
       /\ (Called("register_evidence") /\ tx'.ok)
             => ~registered_hashes[tx'.logs[1].file_hash]
       /\ (Called("register_evidence") /\ ~tx'.ok)
             => /\ UNCHANGED <<evidence_counter, evidences, custody_history,
                               registered_hashes>>
                /\ \A i \in Existing : _evidence_exists(i)']_vars

\* The digest of evidence 1, registered by the deployer, has just been
\* refused as a duplicate to another POLICE caller.
C5_Witness ==
    /\ tx.fn = "register_evidence" /\ ~tx.ok
    /\ tx.err = "Evidence already registered"
    /\ tx.sender = P1
    /\ evidence_counter = 1
    /\ evidences[1].exists /\ evidences[1].creator = Deployer
    /\ Len(custody_history[1]) = 2

DigestsConsistent ==
    /\ \A i, j \in Existing :
          i # j => evidences[i].file_hash # evidences[j].file_hash
    /\ RegisteredDigests = DigestsOfExisting

\* C6 (SpecRegistry): in every state (before and after every step) no two
\* existing evidence records have the same digest and the registered digests
\* are exactly the digests of the existing records, and no step removes a
\* digest from the registered set.
C6_DigestsUniqueAndMonotone ==
    [][/\ DigestsConsistent
       /\ DigestsConsistent'
       /\ RegisteredDigests \subseteq RegisteredDigests']_vars

\* Two evidences with different digests, both digests registered.
C6_Witness ==
    /\ evidence_counter = 2
    /\ evidences[1].exists /\ evidences[2].exists
    /\ evidences[1].file_hash # evidences[2].file_hash
    /\ RegisteredDigests = {1, 2}

\* --- Authorization ------------------------------------------------------
\* C7 (SpecRegistry): register succeeds only if the caller holds the POLICE
\* bit when it calls: every caller without it is rejected, and the evidence
\* counter and the records change only in a successful register by a POLICE
\* holder.
C7_RegisterNeedsPolice ==
    [][/\ \A s \in Senders, inp \in RegistryRegisterInputs :
             BitAnd(roles[s], ROLE_POLICE) = 0
                => register_error(s, inp[1], inp[2], inp[3], inp[4]) # ""
       /\ (Called("register_evidence") /\ tx'.ok)
             => BitAnd(roles[tx'.sender], ROLE_POLICE) # 0
       /\ (evidence_counter' # evidence_counter \/ Existing' # Existing)
             => /\ Called("register_evidence") /\ tx'.ok
                /\ BitAnd(roles[tx'.sender], ROLE_POLICE) # 0]_vars

\* A caller enrolled as LAB only has just been refused a registration.
C7_Witness ==
    /\ tx.fn = "register_evidence" /\ ~tx.ok
    /\ tx.err = "Unauthorized role"
    /\ tx.sender = P2 /\ roles[P2] = ROLE_LAB
    /\ evidence_counter = 0

\* C8: transfer_custody succeeds only if the caller is the evidence's current
\* custodian; custodian and history of an evidence change only in a successful
\* transfer by its custodian, and a rejected transfer changes neither.
C8_OnlyCustodianTransfers ==
    [][/\ (Called("transfer_custody") /\ tx'.ok)
             => tx'.sender = evidences[tx'.logs[1].id].current_custodian
       /\ (Called("transfer_custody") /\ ~tx'.ok)
             => UNCHANGED <<evidences, custody_history>>
       /\ \A i \in Existing :
             (\/ evidences'[i].current_custodian # evidences[i].current_custodian
              \/ custody_history'[i] # custody_history[i])
                => /\ Called("transfer_custody") /\ tx'.ok
                   /\ tx'.logs[1].id = i
                   /\ tx'.sender = evidences[i].current_custodian]_vars

\* The deployer (admin, all four role bits, creator and previous custodian of
\* evidence 1) has just been refused a transfer of evidence 1, held by P1.
C8_Witness ==
    /\ tx.fn = "transfer_custody" /\ ~tx.ok /\ tx.err = "Not custodian"
    /\ tx.sender = Deployer /\ admin = Deployer
    /\ roles[Deployer] = 15
    /\ evidences[1].exists /\ evidences[1].creator = Deployer
    /\ custody_history[1][1].to_address = Deployer
    /\ evidences[1].current_custodian = P1
    /\ Len(custody_history[1]) = 2

\* C9 (SpecRBAC): grant_role and revoke_role called by a principal that does
\* not hold the ADMIN bit always fail and leave every role mask unchanged.
C9_NoAdminBitNoRoleChange ==
    [][((Called("grant_role") \/ Called("revoke_role"))
          /\ BitAnd(roles[tx'.sender], ROLE_ADMIN) = 0)
             => (~tx'.ok /\ roles' = roles)]_vars

\* C10 (SpecRBAC): any principal that holds the ADMIN bit can successfully
\* grant or revoke each of the four roles for any non-zero account.
C10_AdminBitCanChangeRoles ==
    \A s \in Senders :
        BitAnd(roles[s], ROLE_ADMIN) # 0
           => \A a \in Senders, r \in ValidRoles : role_change_error(s, a, r) = ""

\* --- Role masks ---------------------------------------------------------
\* Role arguments that are not exactly one defined role: no bit, a union of
\* defined bits, all four bits, an undefined bit.
UndefinedRoles == {0, 3, 15, 16}

AllRoleBits ==
    BitOr(BitOr(ROLE_ADMIN, ROLE_POLICE), BitOr(ROLE_LAB, ROLE_JUDGE))

MasksDefined ==
    \A a \in Addresses :
        /\ roles[a] \in 0 .. AllRoleBits
        /\ BitAnd(roles[a], AllRoleBits) = roles[a]

\* C11 (SpecRBAC): grant_role and revoke_role accept only a role argument
\* that is exactly one of ADMIN, POLICE, LAB, JUDGE and a non-null target;
\* 0, 3, 15, 16 and the null principal are rejected for every caller, a
\* rejected call leaves every role mask unchanged, and every role mask of
\* every state is a subset of the four defined bits.
C11_OnlyDefinedRoles ==
    [][/\ MasksDefined /\ MasksDefined'
       /\ \A s \in Senders :
             /\ \A a \in Addresses, r \in UndefinedRoles :
                    role_change_error(s, a, r) # ""
             /\ \A r \in ValidRoles : role_change_error(s, ZeroAddress, r) # ""
       /\ ((Called("grant_role") \/ Called("revoke_role")) /\ tx'.ok)
             => /\ tx'.logs[1].role \in ValidRoles
                /\ tx'.logs[1].account # ZeroAddress
       /\ ((Called("grant_role") \/ Called("revoke_role")) /\ ~tx'.ok)
             => roles' = roles
       /\ roles' # roles
             => ((Called("grant_role") \/ Called("revoke_role")) /\ tx'.ok)]_vars

\* The deployer, who passes the admin check, has just been refused a grant
\* for a role argument that is not one defined role, after P1 was enrolled.
C11_Witness ==
    /\ tx.fn = "grant_role" /\ ~tx.ok /\ tx.err = "Invalid role"
    /\ tx.sender = Deployer /\ admin = Deployer
    /\ roles[P1] = ROLE_LAB
    /\ roles[ZeroAddress] = 0

\* Bit b (a power of two) of a mask, read arithmetically.
HasBit(mask, b) == (mask \div b) % 2 = 1

\* C12 (SpecRBAC): a successful grant_role(p, r) sets exactly bit r of p's
\* mask and a successful revoke_role(p, r) clears exactly bit r; p's other
\* bits and every other principal's mask are unchanged; granting a held role
\* and revoking a role not held change nothing; after a revoke has_role(p, r)
\* is false.
C12_GrantSetsRevokeClearsOneBit ==
    [][/\ (Called("grant_role") /\ tx'.ok)
             => LET p == tx'.logs[1].account
                    r == tx'.logs[1].role
                IN /\ \A a \in Addresses, b \in ValidRoles :
                         HasBit(roles'[a], b) =
                            (IF a = p /\ b = r THEN TRUE ELSE HasBit(roles[a], b))
                   /\ roles'[p] \in 0 .. AllRoleBits
                   /\ HasBit(roles[p], r) => roles' = roles
                   /\ BitAnd(roles'[p], r) # 0
       /\ (Called("revoke_role") /\ tx'.ok)
             => LET p == tx'.logs[1].account
                    r == tx'.logs[1].role
                IN /\ \A a \in Addresses, b \in ValidRoles :
                         HasBit(roles'[a], b) =
                            (IF a = p /\ b = r THEN FALSE ELSE HasBit(roles[a], b))
                   /\ roles'[p] \in 0 .. AllRoleBits
                   /\ ~HasBit(roles[p], r) => roles' = roles
                   /\ BitAnd(roles'[p], r) = 0]_vars

\* P1 was granted ADMIN, POLICE and JUDGE and POLICE has just been revoked:
\* has_role(P1, POLICE) is false and the two other bits are still set.
C12_Witness ==
    /\ tx.fn = "revoke_role" /\ tx.ok
    /\ tx.logs[1].account = P1 /\ tx.logs[1].role = ROLE_POLICE
    /\ ~has_role(P1, ROLE_POLICE)
    /\ roles[P1] = BitOr(ROLE_ADMIN, ROLE_JUDGE)

\* --- Registration -------------------------------------------------------
\* An id either has a complete record (history started, digest marked) or
\* nothing at all.
RecordsComplete ==
    \A i \in EvidenceIds :
        IF evidences[i].exists
        THEN /\ Len(custody_history[i]) >= 1
             /\ registered_hashes[evidences[i].file_hash]
        ELSE /\ evidences[i] = EmptyEvidence
             /\ custody_history[i] = <<>>
             /\ evidence_files[i] = <<>>

\* C13 (SpecRegistry): a successful register_evidence by c with digest d
\* creates, in one step, a record with status Collected, creator and current
\* custodian c and digest d, marks d as registered, starts the history with
\* the single entry (no principal -> c) and leaves the file list empty; no
\* state shows a record without its history or its digest mark.
C13_RegisterCreatesCompleteRecord ==
    [][/\ RecordsComplete /\ RecordsComplete'
       /\ (Called("register_evidence") /\ tx'.ok)
             => LET c == tx'.sender
                    d == tx'.logs[1].file_hash
                    id == tx'.ret
                IN /\ ~evidences[id].exists /\ evidences'[id].exists
                   /\ evidences'[id].status = Collected
                   /\ evidences'[id].creator = c
                   /\ evidences'[id].current_custodian = c
                   /\ evidences'[id].file_hash = d
                   /\ evidences'[id].created_at = now
                   /\ ~registered_hashes[d] /\ registered_hashes'[d]
                   /\ Len(custody_history'[id]) = 1
                   /\ custody_history'[id][1].from_address = ZeroAddress
                   /\ custody_history'[id][1].to_address = c
                   /\ custody_history'[id][1].timestamp = now
                   /\ evidence_files'[id] = <<>>
                   /\ \A j \in EvidenceIds \ {id} :
                         /\ evidences'[j] = evidences[j]
                         /\ custody_history'[j] = custody_history[j]]_vars

\* P1, enrolled as POLICE, has just registered digest 2 as the second
\* evidence.
C13_Witness ==
    /\ tx.fn = "register_evidence" /\ tx.ok /\ tx.sender = P1
    /\ tx.ret = 2 /\ tx.logs[1].file_hash = 2
    /\ evidences[2].status = Collected
    /\ evidences[2].current_custodian = P1
    /\ Len(custody_history[2]) = 1
    /\ evidences[1].exists

\* C14 (SpecRegistry): ids are assigned 1, 2, 3, ... in order and never
\* reused: a successful register_evidence returns the counter plus one and
\* sets the counter to it, every other step leaves the counter and the set of
\* ids alone, and an id exists iff it lies between 1 and the counter.
C14_IdsSequential ==
    [][/\ Existing = 1 .. evidence_counter
       /\ Existing' = 1 .. evidence_counter'
       /\ \A i \in Existing : evidences[i].id = i
       /\ get_evidence_count = evidence_counter
       /\ (Called("register_evidence") /\ tx'.ok)
             => /\ tx'.ret = evidence_counter + 1
                /\ tx'.logs[1].id = tx'.ret
                /\ evidence_counter' = tx'.ret
                /\ tx'.ret \notin Existing
                /\ Existing' = Existing \cup {tx'.ret}
                /\ evidences'[tx'.ret].id = tx'.ret
       /\ ~(Called("register_evidence") /\ tx'.ok)
             => /\ evidence_counter' = evidence_counter
                /\ Existing' = Existing]_vars

\* A registration of an already registered digest has just been refused
\* after two successful ones: the counter still stands at 2.
C14_Witness ==
    /\ tx.fn = "register_evidence" /\ ~tx.ok
    /\ tx.err = "Evidence already registered"
    /\ evidence_counter = 2 /\ Existing = {1, 2}
    /\ evidences[1].id = 1 /\ evidences[2].id = 2

\* --- Roles of status changes and attachments ----------------------------
LabOrJudge(a) == HasBit(roles[a], ROLE_LAB) \/ HasBit(roles[a], ROLE_JUDGE)

\* C15 (SpecStatus): set_status succeeds only if the caller holds LAB or
\* JUDGE at the time of the call; a caller with only POLICE and/or ADMIN, or
\* with no role, is refused whatever the requested status, and a refused call
\* leaves every record unchanged; a status changes in no other way.
C15_SetStatusNeedsLabOrJudge ==
    [][/\ \A s \in Callers, i \in EvidenceIds, st \in Status :
             ~LabOrJudge(s) => set_status_error(s, i, st) # ""
       /\ (Called("set_status") /\ tx'.ok) => LabOrJudge(tx'.sender)
       /\ (Called("set_status") /\ ~tx'.ok) => evidences' = evidences
       /\ \A i \in Existing :
             evidences'[i].status # evidences[i].status
                => /\ Called("set_status") /\ tx'.ok
                   /\ LabOrJudge(tx'.sender)]_vars

\* P1, holding ADMIN and POLICE but neither LAB nor JUDGE, has just been
\* refused a status change of a Collected evidence, from which two
\* transitions are open.
C15_Witness ==
    /\ tx.fn = "set_status" /\ ~tx.ok /\ tx.err = "Unauthorized role"
    /\ tx.sender = P1 /\ roles[P1] = BitOr(ROLE_ADMIN, ROLE_POLICE)
    /\ evidences[1].exists /\ evidences[1].status = Collected

\* C16 (SpecStatus): set_status with the evidence's current status as the
\* new status fails for every caller and every status, terminal or not; an
\* authorized caller is told "Status unchanged"; the refused call changes
\* nothing and logs nothing, and every successful call names a new status
\* different from the old one.
C16_SameStatusRejected ==
    [][/\ \A s \in Callers, i \in Existing :
             /\ set_status_error(s, i, evidences[i].status) # ""
             /\ LabOrJudge(s)
                   => set_status_error(s, i, evidences[i].status) = "Status unchanged"
       /\ (Called("set_status") /\ tx'.ok)
             => LET e == tx'.logs[1]
                IN /\ e.old_status = convert(evidences[e.id].status)
                   /\ e.new_status # e.old_status
                   /\ convert(evidences'[e.id].status) = e.new_status
       /\ (Called("set_status") /\ tx'.err = "Status unchanged")
             => /\ UNCHANGED storage
                /\ tx'.logs = << >>]_vars

\* P1, holding JUDGE only, has just asked to archive an Archived evidence.
C16_Witness ==
    /\ tx.fn = "set_status" /\ ~tx.ok /\ tx.err = "Status unchanged"
    /\ tx.sender = P1 /\ roles[P1] = ROLE_JUDGE
    /\ evidences[1].status = Archived

\* Roles named for each transition in the docstring of set_status.
DocumentedRoles(old, new) ==
    IF old = Collected /\ new = InAnalysis THEN {ROLE_LAB}
    ELSE IF old = Collected /\ new = Invalidated THEN {ROLE_JUDGE}
    ELSE IF old = InAnalysis /\ new = Archived THEN {ROLE_LAB, ROLE_JUDGE}
    ELSE IF old = InAnalysis /\ new = Invalidated THEN {ROLE_JUDGE}
    ELSE {}

\* C17 (SpecStatus): every successful status change is made by a caller
\* holding a role that the set_status docstring names for that transition:
\* LAB for Collected -> InAnalysis, JUDGE for any invalidation, LAB or JUDGE
\* for InAnalysis -> Archived.
C17_TransitionsRoleSpecific ==
    [][(Called("set_status") /\ tx'.ok)
          => \E r \in DocumentedRoles(evidences[tx'.logs[1].id].status,
                                       evidences'[tx'.logs[1].id].status) :
                 HasBit(roles[tx'.sender], r)]_vars

\* C18 (SpecStatus): add_file_to_evidence succeeds only if the caller holds
\* LAB (a caller without the LAB bit is refused, whatever else it holds) and
\* the status plays no part: a LAB caller can attach a well-formed file to an
\* existing evidence with room in its file list in each of the four
\* statuses; a file list changes in no other way.
C18_AddFileNeedsLabAnyStatus ==
    [][/\ \A i \in Existing : evidences[i].status \in Status
       /\ \A s \in Callers, inp \in FileInputs :
             LET err == add_file_error(s, inp[1], inp[2], inp[3], inp[4])
             IN /\ ~HasBit(roles[s], ROLE_LAB) => err # ""
                /\ (/\ HasBit(roles[s], ROLE_LAB)
                    /\ inp[1] \in Existing
                    /\ Len(evidence_files[inp[1]]) < MaxFiles) => err = ""
       /\ (Called("add_file_to_evidence") /\ tx'.ok)
             => /\ HasBit(roles[tx'.sender], ROLE_LAB)
                /\ evidences' = evidences
                /\ Len(evidence_files'[tx'.logs[1].id])
                      = Len(evidence_files[tx'.logs[1].id]) + 1
       /\ (Called("add_file_to_evidence") /\ ~tx'.ok)
             => evidence_files' = evidence_files
       /\ evidence_files' # evidence_files
             => /\ Called("add_file_to_evidence") /\ tx'.ok
                /\ HasBit(roles[tx'.sender], ROLE_LAB)]_vars

\* P1, holding LAB only, has just attached a file to an Invalidated
\* evidence.
C18_Witness ==
    /\ tx.fn = "add_file_to_evidence" /\ tx.ok
    /\ tx.sender = P1 /\ roles[P1] = ROLE_LAB
    /\ evidences[1].status = Invalidated
    /\ Len(evidence_files[1]) = 1
    /\ evidence_files[1][1].added_by = P1

\* --- Rejections ---------------------------------------------------------
\* C19 (SpecRejections): a transfer to the null principal, to the caller
\* itself or to a principal whose role mask is 0, or with an empty reason, is
\* refused; every recorded transfer went from its sender to a different,
\* non-null principal that held a role when the transfer was made, with a
\* non-empty reason; no history entry has equal from and to principals.
C19_TransferTargetsEnrolledOther ==
    [][/\ \A s \in Callers, i \in EvidenceIds :
             /\ transfer_error(s, i, ZeroAddress, StrA) # ""
             /\ transfer_error(s, i, s, StrA) # ""
             /\ \A a \in Addresses :
                   /\ roles[a] = 0 => transfer_error(s, i, a, StrA) # ""
                   /\ transfer_error(s, i, a, EmptyString) # ""
       /\ (Called("transfer_custody") /\ tx'.ok)
             => LET id == tx'.logs[1].id
                    h == custody_history'[id]
                    last == h[Len(h)]
                IN /\ Len(h) = Len(custody_history[id]) + 1
                   /\ last.from_address = tx'.sender
                   /\ last.to_address # tx'.sender
                   /\ last.to_address # ZeroAddress
                   /\ roles[last.to_address] # 0
                   /\ Len(last.reason) > 0
       /\ \A i \in EvidenceIds :
             \A k \in 1 .. Len(custody_history[i]) :
                /\ custody_history[i][k].from_address
                      # custody_history[i][k].to_address
                /\ custody_history[i][k].to_address # ZeroAddress]_vars

\* P1, enrolled as LAB and custodian of evidence 1 after a hand-over from
\* the deployer, has just been refused a transfer to itself.
C19_Witness ==
    /\ tx.fn = "transfer_custody" /\ ~tx.ok
    /\ tx.err = "Cannot transfer to self" /\ tx.sender = P1
    /\ roles[P1] = ROLE_LAB
    /\ evidences[1].current_custodian = P1
    /\ Len(custody_history[1]) = 2
    /\ custody_history[1][2].from_address = Deployer
    /\ custody_history[1][2].to_address = P1

\* C20 (SpecRejections): a rejected call of any of the six state-changing
\* functions, on whatever ground, leaves the counter, the records, the
\* histories, the file lists, the role masks, the admin and the digest set
\* as they were and adds no event to the log.
C20_RejectionChangesNothing ==
    [][(now' = now /\ ~tx'.ok)
          => /\ tx'.err # ""
             /\ tx'.logs = << >>
             /\ evidence_counter' = evidence_counter
             /\ evidences' = evidences
             /\ custody_history' = custody_history
             /\ evidence_files' = evidence_files
             /\ roles' = roles
             /\ registered_hashes' = registered_hashes
             /\ admin' = admin]_vars

\* A status change of an Archived evidence with a file and two hand-overs
\* has just been refused on the ground of the transition table.
C20_Witness ==
    /\ tx.fn = "set_status" /\ ~tx.ok
    /\ tx.err = "Cannot transition from Archived" /\ tx.logs = << >>
    /\ evidence_counter = 1 /\ evidences[1].status = Archived
    /\ Len(custody_history[1]) = 3 /\ Len(evidence_files[1]) = 1

\* --- Audit log ----------------------------------------------------------
\* The event that a successful call of fn logs.
EventOf(fn) ==
    CASE fn = "grant_role"           -> "RoleGranted"
      [] fn = "revoke_role"          -> "RoleRevoked"
      [] fn = "register_evidence"    -> "EvidenceRegistered"
      [] fn = "transfer_custody"     -> "CustodyTransferred"
      [] fn = "set_status"           -> "StatusChanged"
      [] fn = "add_file_to_evidence" -> "EvidenceFileAdded"

\* C21 (SpecRejections): each successful call of the six state-changing
\* functions logs exactly one event, of the kind of the function, carrying
\* the caller and the id (or account) it changed and, for a status change,
\* the old and the new status as stored before and after; a failed call logs
\* nothing, and storage changes only in a call that logs its event.
C21_OneEventPerMutation ==
    [][now' = now
         => /\ ~tx'.ok => tx'.logs = << >>
            /\ storage' # storage => (tx'.ok /\ Len(tx'.logs) = 1)
            /\ tx'.ok
                 => LET e == tx'.logs[1]
                        c == tx'.sender
                    IN /\ Len(tx'.logs) = 1
                       /\ e.event = EventOf(tx'.fn)
                       /\ tx'.fn = "grant_role"
                             => /\ e.granted_by = c
                                /\ HasBit(roles'[e.account], e.role)
                                /\ \A a \in Addresses \ {e.account} :
                                      roles'[a] = roles[a]
                       /\ tx'.fn = "revoke_role"
                             => /\ e.revoked_by = c
                                /\ ~HasBit(roles'[e.account], e.role)
                                /\ \A a \in Addresses \ {e.account} :
                                      roles'[a] = roles[a]
                       /\ tx'.fn = "register_evidence"
                             => /\ e.creator = c /\ e.timestamp = now
                                /\ ~evidences[e.id].exists
                                /\ evidences'[e.id].exists
                                /\ evidences'[e.id].file_hash = e.file_hash
                                /\ evidences'[e.id].creator = c
                       /\ tx'.fn = "transfer_custody"
                             => /\ e.from_address = c /\ e.timestamp = now
                                /\ evidences[e.id].current_custodian = c
                                /\ evidences'[e.id].current_custodian = e.to_address
                                /\ Len(custody_history'[e.id])
                                      = Len(custody_history[e.id]) + 1
                       /\ tx'.fn = "set_status"
                             => /\ e.changed_by = c /\ e.timestamp = now
                                /\ e.old_status = convert(evidences[e.id].status)
                                /\ e.new_status = convert(evidences'[e.id].status)
                                /\ e.old_status # e.new_status
                       /\ tx'.fn = "add_file_to_evidence"
                             => /\ e.added_by = c /\ e.timestamp = now
                                /\ Len(evidence_files'[e.id])
                                      = Len(evidence_files[e.id]) + 1]_vars

\* P1, enrolled as LAB, has just invalidated the Collected evidence 1: the
\* receipt holds one StatusChanged event with 1 (Collected) and 8
\* (Invalidated) and P1 as the changer.
C21_Witness ==
    /\ tx.fn = "set_status" /\ tx.ok /\ tx.sender = P1
    /\ Len(tx.logs) = 1
    /\ tx.logs[1].event = "StatusChanged" /\ tx.logs[1].id = 1
    /\ tx.logs[1].old_status = 1 /\ tx.logs[1].new_status = 8
    /\ tx.logs[1].changed_by = P1
    /\ evidences[1].status = Invalidated

\* --- Histories and file lists -------------------------------------------
IsPrefix(s, t) == Len(s) <= Len(t) /\ SubSeq(t, 1, Len(s)) = s

C23_CapacityFailsClosed ==
    [][/\ \A i \in EvidenceIds :
             /\ Len(custody_history[i]) <= MaxHistory
             /\ Len(evidence_files[i]) <= MaxFiles
             /\ Len(custody_history'[i]) <= MaxHistory
             /\ Len(evidence_files'[i]) <= MaxFiles
       /\ \A s \in Callers :
             /\ \A inp \in RejectTransferInputs :
                   Len(custody_history[inp[1]]) = MaxHistory
                      => transfer_error(s, inp[1], inp[2], inp[3]) # ""
             /\ \A inp \in RejectFileInputs :
                   Len(evidence_files[inp[1]]) = MaxFiles
                      => add_file_error(s, inp[1], inp[2], inp[3], inp[4]) # ""
       /\ ((Called("transfer_custody") \/ Called("add_file_to_evidence"))
              /\ tx'.err = "DynArray full")
             => /\ UNCHANGED storage
                /\ tx'.logs = << >>]_vars

\* The custodian of evidence 1, whose history is full, has just been refused
\* a transfer to an enrolled principal other than itself.
C23_Witness ==
    /\ tx.fn = "transfer_custody" /\ ~tx.ok /\ tx.err = "DynArray full"
    /\ Len(custody_history[1]) = MaxHistory
    /\ evidences[1].current_custodian = tx.sender
    /\ custody_history[1][MaxHistory].to_address = tx.sender
    /\ \E a \in Callers \ {tx.sender} : roles[a] # 0

\* --- Queries ------------------------------------------------------------
NotFound == ViewReverted("Evidence does not exist")

\* C24 (SpecRejections): for every id never assigned (0 and every id above
\* the counter) get_evidence, get_custody_history, get_evidence_files,
\* get_current_custodian and verify_integrity fail with the not-found error,
\* and transfer_custody, set_status and add_file_to_evidence fail with it
\* for every caller and argument; for every assigned id the five queries
\* succeed and return what is stored.
C24_UnassignedIdNotFound ==
    \A i \in EvidenceIds :
        IF 1 <= i /\ i <= evidence_counter
        THEN /\ get_evidence(i) = ViewOk(evidences[i])
             /\ get_custody_history(i) = ViewOk(custody_history[i])
             /\ get_evidence_files(i) = ViewOk(evidence_files[i])
             /\ get_current_custodian(i) = ViewOk(evidences[i].current_custodian)
             /\ \A x \in Hashes : verify_integrity(i, x).ok
        ELSE /\ get_evidence(i) = NotFound
             /\ get_custody_history(i) = NotFound
             /\ get_evidence_files(i) = NotFound
             /\ get_current_custodian(i) = NotFound
             /\ \A x \in Hashes : verify_integrity(i, x) = NotFound
             /\ \A s \in Senders :
                   /\ \A a \in Addresses, r \in {EmptyString, StrA} :
                         transfer_error(s, i, a, r) = "Evidence does not exist"
                   /\ \A st \in Status :
                         set_status_error(s, i, st) = "Evidence does not exist"
                   /\ \A x \in Hashes :
                         add_file_error(s, i, x, StrA, StrA)
                            = "Evidence does not exist"

\* The deployer, holding all four roles, has just been refused a status
\* change of an id above the counter, while evidence 1 exists.
C24_Witness ==
    /\ tx.fn = "set_status" /\ ~tx.ok /\ tx.err = "Evidence does not exist"
    /\ tx.sender = Deployer /\ roles[Deployer] = AllRoleBits
    /\ evidence_counter = 1 /\ evidences[1].exists
    /\ get_evidence(2) = NotFound /\ get_evidence(0) = NotFound
    /\ get_evidence(1).ok

\* C25 (SpecRejections): for an existing id verify_integrity(id, x) returns
\* true iff x is the digest given when the id was registered, and no step
\* (transfer, status change, attachment, role change, other registration)
\* changes its answer for any x.
C25_VerifyIntegrityStable ==
    [][/\ \A i \in Existing, x \in Hashes :
             /\ verify_integrity(i, x).ok
             /\ verify_integrity(i, x)' = verify_integrity(i, x)
       /\ (Called("register_evidence") /\ tx'.ok)
             => \A i \in EvidenceIds, d \in Hashes :
                   (i = tx'.ret /\ d = tx'.logs[1].file_hash)
                      => \A x \in Hashes :
                            verify_integrity(i, x)' = ViewOk(x = d)]_vars

\* Evidence 1, registered with digest 1, has since been handed over,
\* archived and given a file, and P1's role was revoked: the digest 1 still
\* verifies and the digest 2 does not.
C25_Witness ==
    /\ tx.fn = "revoke_role" /\ tx.ok /\ roles[P1] = 0
    /\ evidences[1].status = Archived
    /\ Len(custody_history[1]) >= 2 /\ Len(evidence_files[1]) = 1
    /\ verify_integrity(1, 1) = ViewOk(TRUE)
    /\ verify_integrity(1, 2) = ViewOk(FALSE)

\* --- Frame --------------------------------------------------------------
\* C26 (SpecFrame): the status of an evidence changes only in a successful
\* set_status on its id and its current custodian only in a successful
\* transfer_custody on its id; transfer_custody leaves every status as it
\* was, set_status every custodian and history, and every other call (role
\* grant or revocation, registration, attachment, a call on another id)
\* leaves both.
C26_StatusAndCustodianFrame ==
    [][\A i \in Existing :
          /\ evidences'[i].status # evidences[i].status
                => /\ Called("set_status") /\ tx'.ok
                   /\ tx'.logs[1].id = i
          /\ evidences'[i].current_custodian # evidences[i].current_custodian
                => /\ Called("transfer_custody") /\ tx'.ok
                   /\ tx'.logs[1].id = i
          /\ Called("transfer_custody")
                => evidences'[i].status = evidences[i].status
          /\ Called("set_status")
                => /\ evidences'[i].current_custodian
                         = evidences[i].current_custodian
                   /\ custody_history'[i] = custody_history[i]
          /\ (\/ Called("grant_role") \/ Called("revoke_role")
              \/ Called("register_evidence") \/ Called("add_file_to_evidence"))
                => evidences'[i] = evidences[i]]_vars

\* Evidence 2 has just been put in analysis while evidence 1, handed over to
\* P1 and carrying a file, is still Collected.
C26_Witness ==
    /\ tx.fn = "set_status" /\ tx.ok /\ tx.logs[1].id = 2
    /\ evidences[2].status = InAnalysis
    /\ evidences[2].current_custodian = Deployer
    /\ evidences[1].status = Collected
    /\ evidences[1].current_custodian = P1
    /\ Len(evidence_files[1]) = 1

\* --- Calls issued together ----------------------------------------------
\* C27 (SpecRegistry): calls issued together take effect one after the
\* other.  Once a registration of digest d has succeeded, every other
\* registration of d fails, as a duplicate when its sender is enrolled as
\* POLICE; a registration of another digest that could succeed before still
\* can and will get the next id; and once a transfer of an evidence by its
\* custodian has succeeded, a second transfer of it by the same sender fails.
C27_CallsTakeEffectInSequence ==
    [][/\ (Called("register_evidence") /\ tx'.ok)
             => \A s \in Senders, inp \in RegistryRegisterInputs :
                   IF inp[1] = tx'.logs[1].file_hash
                   THEN /\ register_error(s, inp[1], inp[2], inp[3], inp[4])' # ""
                        /\ HasBit(roles[s], ROLE_POLICE)
                              => register_error(s, inp[1], inp[2], inp[3], inp[4])'
                                    = "Evidence already registered"
                   ELSE register_error(s, inp[1], inp[2], inp[3], inp[4]) = ""
                           => /\ register_error(s, inp[1], inp[2], inp[3], inp[4])' = ""
                              /\ new_evidence_id' = new_evidence_id + 1
       /\ (Called("transfer_custody") /\ tx'.ok)
             => \A s \in Senders, i \in EvidenceIds :
                   (s = tx'.sender /\ i = tx'.logs[1].id)
                      => \A a \in Addresses :
                            transfer_error(s, i, a, StrA)' = "Not custodian"]_vars

\* The deployer and P1, both enrolled as POLICE, sent the digest 1: the
\* deployer's registration came first and P1's has just been refused as a
\* duplicate, with the counter at 1.
C27_Witness ==
    /\ tx.fn = "register_evidence" /\ ~tx.ok
    /\ tx.err = "Evidence already registered" /\ tx.sender = P1
    /\ roles[P1] = ROLE_POLICE
    /\ evidence_counter = 1
    /\ evidences[1].creator = Deployer /\ evidences[1].file_hash = 1
    /\ ~registered_hashes[2]

\* --- Callers without a role ---------------------------------------------
\* C28 (SpecRejections): a caller whose role mask is 0 at the time of the
\* call cannot successfully execute any of the six state-changing functions.
C28_NoRoleNoMutation ==
    [][(now' = now /\ roles[tx'.sender] = 0) => ~tx'.ok]_vars

\* --- has_role -----------------------------------------------------------
\* C29 (SpecRBAC): has_role(p, m) is true iff the mask of p and m have a
\* defined bit in common: for one role it tells whether p holds it, for
\* LAB|JUDGE whether p holds at least one of the two, and for 0 it is
\* false; it takes no caller.
C29_HasRoleIsIntersection ==
    \A p \in Addresses :
        /\ \A m \in 0 .. AllRoleBits :
              has_role(p, m)
                 <=> \E b \in ValidRoles : HasBit(roles[p], b) /\ HasBit(m, b)
        /\ \A r \in ValidRoles : has_role(p, r) <=> HasBit(roles[p], r)
        /\ has_role(p, BitOr(ROLE_LAB, ROLE_JUDGE))
              <=> (HasBit(roles[p], ROLE_LAB) \/ HasBit(roles[p], ROLE_JUDGE))
        /\ ~has_role(p, 0)

\* P1 holds LAB and POLICE: has_role answers true for LAB|JUDGE and for
\* LAB, false for JUDGE and for 0.
C29_Witness ==
    /\ tx.fn = "grant_role" /\ tx.ok
    /\ roles[P1] = BitOr(ROLE_LAB, ROLE_POLICE)
    /\ has_role(P1, BitOr(ROLE_LAB, ROLE_JUDGE))
    /\ has_role(P1, ROLE_LAB)
    /\ ~has_role(P1, ROLE_JUDGE)
    /\ ~has_role(P1, 0)

\* --- Deployment ---------------------------------------------------------
\* C30 (Spec): as long as no function has been called since the deployment
\* the deployer is the admin and holds ADMIN, POLICE, LAB and JUDGE, every
\* other principal has the mask 0, the counter is 0 and no evidence,
\* history, file list or registered digest exists.
C30_InitialState ==
    tx.fn = "__init__"
       => /\ tx.sender = Deployer /\ tx.ok
          /\ admin = Deployer
          /\ \A r \in ValidRoles : HasBit(roles[Deployer], r)
          /\ roles[Deployer] = AllRoleBits
          /\ \A a \in Addresses \ {Deployer} : roles[a] = 0
          /\ evidence_counter = 0
          /\ Existing = {}
          /\ \A i \in EvidenceIds :
                /\ evidences[i] = EmptyEvidence
                /\ custody_history[i] = << >>
                /\ evidence_files[i] = << >>
          /\ \A h \in Hashes : ~registered_hashes[h]

\* The contract is deployed and a block has passed without a call.
C30_Witness ==
    /\ tx.fn = "__init__" /\ now = 2
    /\ admin = Deployer /\ roles[Deployer] = AllRoleBits
    /\ evidence_counter = 0


StatusRank(status) ==
    CASE status = Collected -> 0
      [] status = InAnalysis -> 1
      [] status \in Terminal -> 2

\* C33 (SpecStatus): every change of the status of an evidence moves it
\* strictly forward in the order Collected < InAnalysis < {Archived,
\* Invalidated}, so that an evidence changes status at most twice; no
\* successful set_status writes Collected, and Archived is only written
\* over InAnalysis.
C33_AtMostTwoStatusChanges ==
    [][/\ \A i \in Existing :
             evidences'[i].status # evidences[i].status
                => /\ StatusRank(evidences'[i].status)
                         > StatusRank(evidences[i].status)
                   /\ evidences'[i].status # Collected
                   /\ evidences'[i].status = Archived
                         => evidences[i].status = InAnalysis
       /\ (Called("set_status") /\ tx'.ok)
             => /\ tx'.logs[1].new_status # convert(Collected)
                /\ evidences'[tx'.logs[1].id].status # Collected
                /\ tx'.logs[1].new_status = convert(Archived)
                      => tx'.logs[1].old_status = convert(InAnalysis)]_vars

\* Evidence 1 has just been archived, its second change of status.
C33_Witness ==
    /\ tx.fn = "set_status" /\ tx.ok
    /\ tx.logs[1].old_status = convert(InAnalysis)
    /\ tx.logs[1].new_status = convert(Archived)
    /\ evidences[1].status = Archived

\* --- Length of the history ----------------------------------------------
\* C34 (SpecRejections): the history of an evidence has one entry when the
\* evidence is registered and gains exactly one entry with each successful
\* transfer_custody of that evidence; a rejected transfer, a transfer of
\* another evidence, a change of status, an added file and a change of
\* roles leave its length as it is.
C34_HistoryCountsTransfers ==
    [][\A i \in EvidenceIds :
          IF Called("transfer_custody") /\ tx'.ok /\ tx'.logs[1].id = i
          THEN Len(custody_history'[i]) = Len(custody_history[i]) + 1
          ELSE IF Called("register_evidence") /\ tx'.ok /\ tx'.ret = i
          THEN Len(custody_history[i]) = 0 /\ Len(custody_history'[i]) = 1
          ELSE Len(custody_history'[i]) = Len(custody_history[i])]_vars

\* Evidence 1 has been transferred twice, its history has three entries,
\* and a third transfer has just been rejected.
C34_Witness ==
    /\ tx.fn = "transfer_custody" /\ ~tx.ok
    /\ Len(custody_history[1]) = 3
    /\ custody_history[1][1].from_address = ZeroAddress
    /\ custody_history[1][2].from_address = Deployer
    /\ custody_history[1][3].from_address = P1

C36_ResponseIsSnapshot ==
    (/\ req.handler = "getEvidenceById" /\ req.pc = "done"
     /\ req.res.status = 200)
       => LET h == req.res.data.custodyHistory
          IN req.res.data.currentCustodian = h[Len(h)].toAddress

\* --- The id returned by a registration ----------------------------------
\* C37 (SpecIds): the evidenceId in the answer of a registration through
\* the backend is the id of the record that holds the digest submitted,
\* whether it was read from the EvidenceRegistered log or from
\* evidence_counter after the confirmation, and whatever other
\* registrations are mined meanwhile.
C37_ReturnedIdIsOwnRecord ==
    (/\ req.handler = "registerEvidence" /\ req.pc = "done"
     /\ req.res.status = 201)
       => evidences[req.res.data.evidenceId].file_hash = req.res.data.fileHash


\* --- Order of the steps of a registration -------------------------------
\* The calls of a request that went to the contract.
LedgerCalls(r) ==
    {k \in 1 .. Len(r.calls) :
        r.calls[k] \in {"contract.register_evidence",
                        "contract.add_file_to_evidence"}}

\* C38 (SpecBackend): in POST /api/evidences and POST
\* /api/evidences/:id/files the ledger call is made after the digest has
\* been computed from the file, the content stored and the CID pinned, in
\* that order; every record and file on the ledger carries a CID that is
\* stored and pinned; and a request whose upload or pin failed has made no
\* ledger call and ends with an error.
C38_UploadPinThenLedger ==
    [][/\ LedgerCalls(req') \ LedgerCalls(req) # {}
             => /\ req.calls = <<"ipfs.add", "ipfs.pin.add">>
                /\ req.fileHash = computeHash(req.params.file)
                /\ req.cid = cid_of(req.params.file)
                /\ req.cid \in ipfs.blocks /\ req.cid \in ipfs.pins
                /\ tx'.fn \in {"register_evidence", "add_file_to_evidence"}
                /\ tx'.ok => /\ tx'.logs[1].ipfs_cid = req.cid
                             /\ tx'.logs[1].file_hash = req.fileHash
       /\ \A i \in EvidenceIds :
             /\ evidences'[i].exists
                   => evidences'[i].ipfs_cid \in ipfs'.blocks \cap ipfs'.pins
             /\ \A k \in 1 .. Len(evidence_files'[i]) :
                   evidence_files'[i][k].ipfs_cid \in ipfs'.blocks \cap ipfs'.pins
       /\ req'.res.error \in {"IPFS upload error", "IPFS pin error"}
             => /\ req'.pc = "done" /\ req'.res.status = 500
                /\ LedgerCalls(req') = {}
                /\ req' # req => UNCHANGED <<storage, tx>>
       /\ req'.handler \in {"registerEvidence", "addFile"}
             => \/ req'.calls = << >>
                \/ req'.calls = <<"ipfs.add">>
                \/ req'.calls = <<"ipfs.add", "ipfs.pin.add">>
                \/ /\ Len(req'.calls) = 3
                   /\ SubSeq(req'.calls, 1, 2) = <<"ipfs.add", "ipfs.pin.add">>
                   /\ LedgerCalls(req') = {3}]_vars

\* The content Y, stored and pinned, has just been attached to evidence 1,
\* whose own content X is stored and pinned too.
C38_Witness ==
    /\ req.handler = "addFile" /\ req.pc = "done" /\ req.res.status = 201
    /\ req.calls = <<"ipfs.add", "ipfs.pin.add", "contract.add_file_to_evidence">>
    /\ Len(evidence_files[1]) = 1
    /\ evidence_files[1][1].ipfs_cid = cid_of(BufY)
    /\ evidences[1].ipfs_cid = cid_of(BufX)
    /\ ipfs.pins = {cid_of(BufX), cid_of(BufY)}

\* --- Malformed requests -------------------------------------------------
\* A string that is a decimal numeral, with or without a sign.
IsInteger(x) ==
    /\ x # undefined
    /\ LET u == IF x # << >> /\ Head(x) \in {"-", "+"} THEN Tail(x) ELSE x
       IN /\ u # << >>
          /\ \A k \in 1 .. Len(u) : DigitValue(u[k], 10) >= 0

\* A string that holds no text.
Blank(x) == x = undefined \/ \A k \in 1 .. Len(x) : x[k] = " "

\* What the request being handled lacks, if anything.
Malformed(r) ==
    LET body == r.params
        bad_id == ~(IsInteger(body.id) /\ parseInt(body.id).n >= 1)
    IN CASE r.handler = "registerEvidence"
               -> \/ body.file = undefined
                  \/ Blank(body.description) \/ Blank(body.caseId)
         [] r.handler = "addFile"
               -> bad_id \/ body.file = undefined \/ Blank(body.fileType)
         [] r.handler = "transferCustody"
               -> \/ bad_id \/ Blank(body.reason)
                  \/ body.newCustodian = undefined
                  \/ ~match_address(body.newCustodian)
         [] r.handler = "changeStatus"
               -> \/ bad_id
                  \/ body.status = undefined
                  \/ IsInteger(body.status)
                        /\ parseInt(body.status).n \notin 0 .. 3
                  \/ isNaN(parseInt(body.status))
         [] OTHER -> FALSE

\* C39 (SpecBackend): a request with a missing file, a blank description,
\* case id, file type or reason, an evidence id that is not an integer
\* >= 1, a custodian address that is not 0x and 40 hex digits, or a status
\* that is no number or an integer outside 0..3 is answered with 400 and
\* makes no upload, pin or ledger call.
C39_MalformedRejectedFirst ==
    (req.pc # "idle" /\ Malformed(req))
       => /\ req.pc = "done" /\ req.res.status = 400
          /\ req.calls = << >>

\* --- Initialization of the services -------------------------------------
\* The handlers and methods that go to the blockchain service first.
BlockchainMethods ==
    {"transferCustody", "changeStatus", "getEvidenceById", "grantRole",
     "getEvidenceCount", "getAllEvidences", "verifyIntegrity"}

\* C40 (SpecBackend): both initialized flags are false until the service's
\* initialize() has resolved, are set by nothing else and never reset, and
\* stay false when initialize() throws; a call recorded at the IPFS node or
\* at the contract, and a change of the node or of the contract's storage,
\* are made with the service's flag set; a service method entered with the
\* flag unset ends the request with the service's 'not initialized' error;
\* and the server listens only with both flags set.
C40_NothingBeforeInitialize ==
    [][/\ server = "initializeServices"
             => ~ipfsService.initialized /\ ~blockchainService.initialized
       /\ ipfsService'.initialized # ipfsService.initialized
             => /\ server = "initializeServices"
                /\ server' = "blockchainService.initialize"
                /\ ipfsService'.initialized
       /\ blockchainService'.initialized # blockchainService.initialized
             => /\ server = "blockchainService.initialize"
                /\ server' = "initialized"
                /\ blockchainService'.initialized
       /\ (server' = "not initialized" /\ server # server')
             => /\ ~blockchainService'.initialized
                /\ server = "initializeServices" => ~ipfsService'.initialized
       /\ server' \in {"not initialized", "exited"}
             => ~(ipfsService'.initialized /\ blockchainService'.initialized)
       /\ server' = "listening"
             => ipfsService'.initialized /\ blockchainService'.initialized
       /\ (server' = "listening" /\ server # "listening")
             => server = "initialized"
       /\ \A k \in 1 .. Len(req'.calls) :
             (k > Len(req.calls) \/ req'.calls[k] # req.calls[k])
                => IF req'.calls[k] \in {"ipfs.add", "ipfs.pin.add",
                                         "ipfs.getFile", "ipfs.getFileStats"}
                   THEN ipfsService.initialized
                   ELSE blockchainService.initialized
       /\ ipfs' # ipfs => ipfsService.initialized
       /\ storage' # storage => blockchainService.initialized
       /\ (req' # req /\ req'.res.status \notin {0, 400})
             => /\ (~ipfsService.initialized
                      /\ req'.handler \in {"registerEvidence", "addFile",
                                           "getFile", "getFileStats"})
                      => /\ req'.res.error = "IPFS service not initialized"
                         /\ req'.pc = "done" /\ req'.calls = << >>
                /\ (~blockchainService.initialized
                      /\ req'.handler \in BlockchainMethods)
                      => /\ req'.res.error = "Blockchain service not initialized"
                         /\ req'.pc = "done" /\ req'.calls = << >>
                /\ (~blockchainService.initialized /\ ipfsService.initialized
                      /\ req'.handler \in {"registerEvidence", "addFile"}
                      /\ req.pc = "ledger")
                      => /\ req'.res.error = "Blockchain service not initialized"
                         /\ req'.pc = "done" /\ req'.calls = req.calls
                         /\ UNCHANGED <<storage, tx>>]_vars

\* blockchainService.initialize() threw after the IPFS service had been
\* initialized: a registration stored and pinned its content, was refused
\* by the blockchain service, and the process has exited.
C40_Witness ==
    /\ server = "exited"
    /\ ipfsService.initialized /\ ~blockchainService.initialized
    /\ req.handler = "registerEvidence" /\ req.pc = "done"
    /\ req.res.error = "Blockchain service not initialized"
    /\ req.calls = <<"ipfs.add", "ipfs.pin.add">>
    /\ evidence_counter = 0

====
